---------------------------- MODULE Spec2Model ----------------------------
(***************************************************************************)
(* A model of fiasco-lsp, the LSP proxy between an editor and clangd.      *)
(*                                                                         *)
(*   SpecMap   the source-mapping engine (src/src/source_mapping.rs):      *)
(*             parsing preprocessed files, building to_preprocess and     *)
(*             from_preprocess, sort, check, and the queries.              *)
(*   Spec      the request/response dispatcher (src/src/dispatch.rs) with  *)
(*             the fan-out handlers (inlay_hint.rs, document_symbol.rs).   *)
(*   SpecSync  the document synchronisation notifications                  *)
(*             (src/src/handler/document_sync.rs).                         *)
(*   SpecNotify the notifications translated one to many: diagnostics      *)
(*             (handler/diagnostics.rs) and didChange (document_sync.rs).  *)
(*   SpecGoto  goto requests and their responses (handler/goto.rs).        *)
(*   SpecIds   the outbound request ids over the whole range of the       *)
(*             counter (global_state.rs, dispatch.rs).                     *)
(*   SpecLoop  main_loop on the two inbound channels (main.rs).            *)
(*   SpecReader the reader thread of the server's stdout                   *)
(*             (language_server_transport.rs).                             *)
(*   SpecLogger Logger::send against the consumer thread                   *)
(*             (websocket_logger.rs).                                      *)
(*   SpecParse the line parser on one preprocessed file                    *)
(*             (source_mapping.rs, extract_line_mappings).                 *)
(*   SpecAction code action requests and their responses                   *)
(*             (handler/code_action.rs).                                   *)
(***************************************************************************)
EXTENDS Integers, Sequences, FiniteSets, TLC

VARIABLES
    \* ---- source mapping (source_mapping.rs)
    overflow_checks,   \* build profile: TRUE = arithmetic overflow panics, FALSE = wraps
    auto_files,        \* the files under <build_dir>/auto: path -> sequence of lines
    dir_order,         \* the order in which read_dir yields them
    map_pc,            \* "start" | "ready" | "panicked"
    source_mapping,    \* GlobalState.source_mapping: [to_preprocess, from_preprocess]
    query,             \* the last point query made and its results
    range_query,       \* the last range query made and its result
    parsed,            \* a file handed to the line parser and what it made of it
    \* ---- dispatcher (global_state.rs, dispatch.rs)
    client_reqs,       \* Request Registry of direction ToServer: outbound id -> ReqContext
    server_reqs,       \* Request Registry of direction FromServer
    next_req_id,       \* GlobalState.next_req_id
    cells,             \* the Rc<RefCell<..>> accumulators: cell -> [strong, value]
    sent,              \* the messages the last handler emitted, in order
    crashed,           \* the coordinator panicked
    \* ---- document synchronisation
    open_files,        \* GlobalState.open_files: preprocessed path -> count
    \* ---- history (not program state)
    inflight,          \* per direction, outbound ids sent and not yet answered
    origin,            \* outbound id -> id the originating peer used
    fan,               \* per fan-out request: shards sent, answered, responses emitted
    author_open,       \* author file -> the client has it open
    conforming,        \* the client opened only closed files and closed only open ones
    server_open,       \* preprocessed file -> didOpen minus didClose sent to the server
    track,             \* per author file: the refcount map before its last didOpen
    relayed,           \* the notification the proxy translated last
    last,              \* the message the proxy processed last
    \* ---- coordinator and workers (main.rs, language_server_transport.rs,
    \*      websocket_logger.rs)
    client_receiver,   \* state.client.receiver: the messages read from the client
    from_lang_server,  \* state.server.from_lang_server: the messages read from the server
    loop_pc,           \* main_loop: "running" | "shutdown" | "returned" | "failed"
    reader,            \* reader_loop: its position, its input and what it published
    logger,            \* Logger: the bounded queue and the position of Logger::send
    emitted,           \* history: what the coordinator sent, with the message that caused it
    last_req_id        \* history: the id of the request the proxy sent last

mapvars  == <<overflow_checks, auto_files, dir_order, map_pc, source_mapping, query,
              range_query, parsed>>
dispvars == <<client_reqs, server_reqs, next_req_id, cells, sent, crashed, inflight, origin, fan>>
syncvars == <<open_files, author_open, conforming, server_open, track, relayed>>
iovars   == <<client_receiver, from_lang_server, loop_pc, reader, logger, emitted, last_req_id>>
vars     == <<mapvars, dispvars, syncvars, last, iovars>>

-----------------------------------------------------------------------------
(* Bounds of the model.                                                    *)

\* longest first preprocessed file, in chunks
MaxChunks == 2

\* lines queried: 0 .. MaxQueryLine
MaxQueryLine == 5

\* u32, scaled down: line arithmetic is modulo this
U32Modulus == 128

-----------------------------------------------------------------------------
(* Paths.                                                                  *)

AuthorFiles == {"a.cpp", "b.cpp"}
PreFiles    == {"X.cc", "Y.cc"}
UnknownFile == "u.txt"

Sections == {"None", "Interface", "Implementation"}

-----------------------------------------------------------------------------
(* Lines of a preprocessed file, by what the parser recognises.            *)

Ln(kind, n, file) == [kind |-> kind, n |-> n, file |-> file]
Text      == Ln("text", 0, "")
LineRef(n, f) == Ln("line", n, f)
IfaceMark == Ln("iface", 0, "")
ImplMark  == Ln("impl", 0, "")
ExtMark   == Ln("ext", 0, "")

\* mutant: the name is not sanitized, so the closing line is never recognised
EndifPatternUnsanitized(name) == "#endif // " \o name

\* NAME_REPLACE_RE.replace(name, "_") prefixed by "#endif // ": Regex::replace
\* substitutes the first match of [+-.] only.
EndifPattern(name) ==
    CASE name = "X.cc" -> "#endif // X_cc"
      [] name = "Y.cc" -> "#endif // Y_cc"
      [] OTHER         -> "#endif // ?"

\* the closing line the preprocessor writes into file `name`
EndifOf(name) ==
    CASE name = "X.cc" -> "#endif // X_cc"
      [] name = "Y.cc" -> "#endif // Y_cc"
      [] OTHER         -> "#endif // ?"

EndifMark(name) == Ln("endif", 0, EndifOf(name))

-----------------------------------------------------------------------------
(* u32 arithmetic: an overflow panics when overflow checks are compiled in *)
(* and wraps otherwise.                                                    *)

USub(oc, a, b) == [v |-> (a - b) % U32Modulus, panic |-> oc /\ a < b]
UAdd(oc, a, b) == [v |-> (a + b) % U32Modulus, panic |-> oc /\ a + b >= U32Modulus]
Max(a, b) == IF a >= b THEN a ELSE b

-----------------------------------------------------------------------------
(* LineMapping and FileLineMappings.                                       *)

LineMapping(sec, src, end, dst_file, dst) ==
    [section |-> sec, src_line |-> src, src_end_line |-> end,
     dst_file |-> dst_file, dst_line |-> dst]

\* LineMapping::contains
Contains(m, line) == line >= m.src_line /\ line <= m.src_end_line

\* LineMapping::overlaps
Overlaps(m, start, end) == start <= m.src_end_line /\ m.src_line <= end

\* FileLineMappings::new
NewFileLineMappings ==
    [files |-> <<>>, none |-> <<>>, interface |-> <<>>, implementation |-> <<>>,
     length |-> 0]

\* FileLineMappings::get
SectionList(flm, sec) ==
    CASE sec = "None"           -> flm.none
      [] sec = "Interface"      -> flm.interface
      [] sec = "Implementation" -> flm.implementation

AllMappingsOf(flm) ==
    {flm.none[i] : i \in 1..Len(flm.none)}
      \cup {flm.interface[i] : i \in 1..Len(flm.interface)}
      \cup {flm.implementation[i] : i \in 1..Len(flm.implementation)}

SeqContains(s, x) == \E i \in 1..Len(s) : s[i] = x

\* FileLineMappings::push
Push(flm, m) ==
    LET len   == IF m.src_end_line > flm.length THEN m.src_end_line ELSE flm.length
        files == IF SeqContains(flm.files, m.dst_file) THEN flm.files
                 ELSE Append(flm.files, m.dst_file)
    IN  CASE m.section = "None" ->
               [flm EXCEPT !.length = len, !.files = files, !.none = Append(@, m)]
          [] m.section = "Interface" ->
               [flm EXCEPT !.length = len, !.files = files, !.interface = Append(@, m)]
          [] m.section = "Implementation" ->
               [flm EXCEPT !.length = len, !.files = files, !.implementation = Append(@, m)]

RECURSIVE PushAll(_, _)
PushAll(flm, ms) ==
    IF ms = <<>> THEN flm ELSE PushAll(Push(flm, Head(ms)), Tail(ms))

\* FileLineMappings::from_mappings
FromMappings(ms) == PushAll(NewFileLineMappings, ms)

\* slice::sort_by_key(|l| l.src_line): a stable sort
RECURSIVE InsertByKey(_, _)
InsertByKey(sorted, m) ==
    IF sorted = <<>> THEN <<m>>
    ELSE IF sorted[Len(sorted)].src_line <= m.src_line THEN Append(sorted, m)
    ELSE Append(InsertByKey(SubSeq(sorted, 1, Len(sorted) - 1), m), sorted[Len(sorted)])

RECURSIVE SortByKey(_)
SortByKey(s) ==
    IF s = <<>> THEN <<>>
    ELSE InsertByKey(SortByKey(SubSeq(s, 1, Len(s) - 1)), s[Len(s)])

\* FileLineMappings::sort
SortFile(flm) ==
    [flm EXCEPT !.none = SortByKey(@), !.interface = SortByKey(@),
                !.implementation = SortByKey(@)]

\* check_section: the assertion holds of this list
SectionChecked(s) ==
    \A i \in 1..(Len(s) - 1) : s[i].src_end_line <= s[i+1].src_line

\* mutant: the overlap assertions are compiled out
CheckFileSkipped(flm) == TRUE

\* FileLineMappings::check passes
CheckFile(flm) ==
    /\ SectionChecked(flm.none)
    /\ SectionChecked(flm.interface)
    /\ SectionChecked(flm.implementation)

-----------------------------------------------------------------------------
(* extract_line_mappings: the line parser.                                 *)

ParserInit ==
    [cur_section |-> "None", mappings |-> <<>>, ln |-> 0, ln_offset |-> 0,
     panic |-> FALSE, stop |-> FALSE]

SetLastEnd(ms, end) ==
    IF ms = <<>> THEN ms ELSE [ms EXCEPT ![Len(ms)].src_end_line = end]

\* one iteration of the loop over (l, line), l counted from 0
ParseLine(oc, name, st, l, line) ==
    LET s0 == [st EXCEPT !.ln = l] IN
    CASE line.kind = "line" ->
           LET e1  == USub(oc, l, s0.ln_offset)
               e2  == USub(oc, e1.v, 1)
               cp  == s0.mappings /= <<>> /\ (e1.panic \/ e2.panic)
               ms  == IF s0.mappings = <<>> THEN s0.mappings
                      ELSE SetLastEnd(s0.mappings,
                                      Max(s0.mappings[Len(s0.mappings)].src_line, e2.v))
               d   == USub(oc, line.n, 1)
               new == LineMapping(s0.cur_section, l + 1, 0, line.file, d.v)
           IN  [s0 EXCEPT !.mappings = Append(ms, new), !.ln_offset = 0,
                          !.panic = cp \/ d.panic]
      [] line.kind = "iface" ->
           [s0 EXCEPT !.cur_section = "Interface",
                      !.mappings = SetLastEnd(@, l), !.ln_offset = 5]
      [] line.kind = "impl" ->
           [s0 EXCEPT !.cur_section = "Implementation",
                      !.mappings = SetLastEnd(@, l), !.ln_offset = 5]
      [] line.kind = "ext" ->
           [s0 EXCEPT !.ln_offset = 3]
      [] line.kind = "endif" /\ line.file = EndifPattern(name) ->
           LET d == USub(oc, l, 1)
           IN  [s0 EXCEPT !.ln = d.v, !.panic = d.panic, !.stop = TRUE]
      [] OTHER -> s0

RECURSIVE ParseFrom(_, _, _, _, _)
ParseFrom(oc, name, st, lines, i) ==
    IF i > Len(lines) \/ st.panic \/ st.stop THEN st
    ELSE ParseFrom(oc, name, ParseLine(oc, name, st, i - 1, lines[i]), lines, i + 1)

\* extract_line_mappings(name, lines): [mappings, panic]
ExtractLineMappings(oc, name, lines) ==
    LET Closed(st) ==
            LET e == USub(oc, st.ln, st.ln_offset)
            IN  IF st.panic THEN [mappings |-> <<>>, panic |-> TRUE]
                ELSE IF st.mappings = <<>> THEN [mappings |-> <<>>, panic |-> FALSE]
                ELSE [mappings |-> SetLastEnd(st.mappings, e.v), panic |-> e.panic]
    IN  Closed(ParseFrom(oc, name, ParserInit, lines, 1))

-----------------------------------------------------------------------------
(* FiascoSourceMapping and load_source_mapping.                            *)

\* a map with no keys
EmptyMap == [x \in {} |-> 0]

MapPut(f, k, v) == [x \in (DOMAIN f) \cup {k} |-> IF x = k THEN v ELSE f[x]]
MapRemove(f, k) == [x \in (DOMAIN f) \ {k} |-> f[x]]

\* FiascoSourceMapping::new
NewSourceMapping == [to_preprocess |-> EmptyMap, from_preprocess |-> EmptyMap]

\* the record pushed into to_preprocess for a parsed mapping of file `path`
Mirror(oc, path, m) ==
    LET len == USub(oc, m.src_end_line, m.src_line)
        end == UAdd(oc, m.dst_line, len.v)
    IN  [m |-> LineMapping(m.section, m.dst_line, end.v, path, m.src_line),
         panic |-> len.panic \/ end.panic]

RECURSIVE PushMirrors(_, _, _, _)
PushMirrors(oc, path, ms, r) ==
    IF ms = <<>> \/ r.panic THEN r
    ELSE LET mi  == Mirror(oc, path, Head(ms))
             key == Head(ms).dst_file
             old == IF key \in DOMAIN r.to THEN r.to[key] ELSE NewFileLineMappings
         IN  PushMirrors(oc, path, Tail(ms),
                         [to |-> MapPut(r.to, key, Push(old, mi.m)), panic |-> mi.panic])

\* extract_line_mappings_for_file(path, source_mapping): [sm, panic]
ExtractLineMappingsForFile(oc, path, lines, sm) ==
    LET Pushed(ex, to) ==
            IF ex.panic \/ to.panic THEN [sm |-> sm, panic |-> TRUE]
            ELSE [sm |-> [to_preprocess   |-> to.to,
                          from_preprocess |-> MapPut(sm.from_preprocess, path,
                                                     FromMappings(ex.mappings))],
                  panic |-> FALSE]
        Extracted(ex) ==
            Pushed(ex, PushMirrors(oc, path, ex.mappings,
                                   [to |-> sm.to_preprocess, panic |-> FALSE]))
    IN  Extracted(ExtractLineMappings(oc, path, lines))

RECURSIVE ExtractAll(_, _, _, _)
ExtractAll(oc, files, order, r) ==
    IF order = <<>> \/ r.panic THEN r
    ELSE ExtractAll(oc, files, Tail(order),
                    ExtractLineMappingsForFile(oc, Head(order), files[Head(order)], r.sm))

\* FiascoSourceMapping::sort
SortMapping(sm) ==
    [to_preprocess   |-> [p \in DOMAIN sm.to_preprocess |-> SortFile(sm.to_preprocess[p])],
     from_preprocess |-> [p \in DOMAIN sm.from_preprocess |-> SortFile(sm.from_preprocess[p])]]

\* FiascoSourceMapping::check passes
CheckMapping(sm) ==
    /\ \A p \in DOMAIN sm.to_preprocess : CheckFile(sm.to_preprocess[p])
    /\ \A p \in DOMAIN sm.from_preprocess : CheckFile(sm.from_preprocess[p])

\* load_source_mapping: [sm, panic]
LoadSourceMapping(oc, files, order) ==
    LET Checked(sorted) ==
            IF ~CheckMapping(sorted) THEN [sm |-> NewSourceMapping, panic |-> TRUE]
            ELSE [sm |-> sorted, panic |-> FALSE]
        Sorted(ex) ==
            IF ex.panic THEN [sm |-> NewSourceMapping, panic |-> TRUE]
            ELSE Checked(SortMapping(ex.sm))
    IN  Sorted(ExtractAll(oc, files, order, [sm |-> NewSourceMapping, panic |-> FALSE]))

-----------------------------------------------------------------------------
(* Queries (source_mapping.rs, util.rs).                                   *)

LineMappingsOf(sm, direction) ==
    IF direction = "ToPreprocess" THEN sm.to_preprocess ELSE sm.from_preprocess

\* slice::partition_point(|l| line >= l.src_line) on a list sorted by src_line
PartitionPoint(s, line) == Cardinality({i \in 1..Len(s) : line >= s[i].src_line})

NoMapping == [section |-> "", src_line |-> 0, src_end_line |-> 0,
              dst_file |-> "", dst_line |-> 0]

\* FiascoSourceMapping::find_mapping: [found, m]
FindMapping(line_mappings, path, line, section) ==
    IF path \notin DOMAIN line_mappings THEN [found |-> FALSE, m |-> NoMapping]
    ELSE LET s     == SectionList(line_mappings[path], section)
             index == PartitionPoint(s, line)
         IN  IF index > 0 /\ Contains(s[index], line)
             THEN [found |-> TRUE, m |-> s[index]]
             ELSE [found |-> FALSE, m |-> NoMapping]

\* mutant: the sections are searched Interface first
SelectMappingInterfaceFirst(sm, direction, path, line) ==
    LET lm == LineMappingsOf(sm, direction)
        First(ifc, impl, none) ==
            IF ifc.found THEN ifc ELSE IF impl.found THEN impl ELSE none
    IN  First(FindMapping(lm, path, line, "Interface"),
              FindMapping(lm, path, line, "Implementation"),
              FindMapping(lm, path, line, "None"))

\* the mapping FiascoSourceMapping::map selects: Implementation, Interface, None
SelectMapping(sm, direction, path, line) ==
    LET lm == LineMappingsOf(sm, direction)
        First(impl, ifc, none) ==
            IF impl.found THEN impl ELSE IF ifc.found THEN ifc ELSE none
    IN  First(FindMapping(lm, path, line, "Implementation"),
              FindMapping(lm, path, line, "Interface"),
              FindMapping(lm, path, line, "None"))

\* mutant: the column is not carried over
MapCharacterLost(sm, direction, path, line, character) ==
    LET Located(sel) ==
            IF ~sel.found THEN [path |-> path, line |-> line, character |-> 0]
            ELSE [path      |-> sel.m.dst_file,
                  line      |-> (sel.m.dst_line + (line - sel.m.src_line)) % U32Modulus,
                  character |-> 0]
    IN  Located(SelectMapping(sm, direction, path, line))

\* FiascoSourceMapping::map: the SourceLocation
Map(sm, direction, path, line, character) ==
    LET Located(sel) ==
            IF ~sel.found THEN [path |-> path, line |-> line, character |-> character]
            ELSE [path      |-> sel.m.dst_file,
                  line      |-> (sel.m.dst_line + (line - sel.m.src_line)) % U32Modulus,
                  character |-> character]
    IN  Located(SelectMapping(sm, direction, path, line))

\* FiascoSourceMapping::map_files
MapFiles(sm, direction, path) ==
    LET lm == LineMappingsOf(sm, direction)
    IN  IF path \in DOMAIN lm THEN lm[path].files ELSE <<>>

-----------------------------------------------------------------------------
(* util.rs: range and position queries.                                    *)

\* mutant: the files of the two endpoints are not compared
MapRangeUnchecked(sm, direction, path, start, end) ==
    LET Joined(ms, me) ==
            [ok |-> TRUE, path |-> ms.path, start |-> ms.line, end |-> me.line]
    IN  Joined(Map(sm, direction, path, start, 0), Map(sm, direction, path, end, 0))

\* FiascoSourceMapping::map_range: [ok, path, start, end]
MapRange(sm, direction, path, start, end) ==
    LET Joined(ms, me) ==
            IF ms.path /= me.path
            THEN [ok |-> FALSE, path |-> path, start |-> start, end |-> end]
            ELSE [ok |-> TRUE, path |-> ms.path, start |-> ms.line, end |-> me.line]
    IN  Joined(Map(sm, direction, path, start, 0), Map(sm, direction, path, end, 0))

\* FiascoSourceMapping::map_files_with_range
MapFilesWithRange(sm, direction, path, start, end) ==
    LET lm == LineMappingsOf(sm, direction)
    IN  IF path \notin DOMAIN lm THEN {}
        ELSE {m.dst_file : m \in {x \in AllMappingsOf(lm[path]) : Overlaps(x, start, end)}}

\* FiascoSourceMapping::file_length
FileLength(sm, direction, path) == LineMappingsOf(sm, direction)[path].length

-----------------------------------------------------------------------------
(* SpecMap: load the mapping from the files under auto/, then query it.    *)

Repeat(x, n) == [i \in 1..n |-> x]

\* the N of the `#line N "PATH"` directives
LineNos == {1, 3}

Marker(sec) ==
    CASE sec = "Interface"      -> <<IfaceMark>> \o Repeat(Text, 5)
      [] sec = "Implementation" -> <<ImplMark>> \o Repeat(Text, 5)
      [] OTHER                  -> <<>>

\* what the preprocessor writes for one part of an author file: the section
\* marker with its five generated lines (if the section changes), the #line
\* directive and a line of content
Part(sec, n, f) == Marker(sec) \o <<LineRef(n, f), Text>>

\* the pieces preprocessed files are made of
Chunks(name) ==
    {Part(sec, n, f) : sec \in Sections, n \in LineNos, f \in AuthorFiles}
      \cup { <<LineRef(1, "a.cpp")>>,
             <<Text>>,
             <<ExtMark>> \o Repeat(Text, 3),
             <<ImplMark>>,
             <<ImplMark, LineRef(1, "b.cpp"), Text>>,
             <<EndifMark(name)>> }

SmallFiles ==
    { <<>>, Part("None", 1, "a.cpp"), Part("Interface", 1, "a.cpp"),
      Part("Implementation", 1, "a.cpp"), Part("None", 3, "b.cpp") }

RECURSIVE Flatten(_)
Flatten(cs) == IF cs = <<>> THEN <<>> ELSE Head(cs) \o Flatten(Tail(cs))

FilesOfChunks(S, n) == { Flatten(cs) : cs \in UNION { [1..k -> S] : k \in 0..n } }

Orders == { <<"X.cc", "Y.cc">>, <<"Y.cc", "X.cc">> }

\* the preprocessed file of the line-map parse scenario: `#line 10 "a.cpp"` on
\* physical line 3, 20 lines of content, `// IMPLEMENTATION` on line 24 with
\* its five generated lines, `#line 100 "b.cpp"` on line 30, 5 lines of
\* content and the closing #endif
ScenarioFile ==
    Repeat(Text, 2) \o <<LineRef(10, "a.cpp")>> \o Repeat(Text, 20)
      \o <<ImplMark>> \o Repeat(Text, 5)
      \o <<LineRef(100, "b.cpp")>> \o Repeat(Text, 5) \o <<EndifMark("X.cc")>>

ScenarioFiles == [p \in PreFiles |-> IF p = "X.cc" THEN ScenarioFile ELSE <<>>]

NoQuery == [path |-> "", line |-> 0, character |-> 0, hit |-> FALSE,
            fwd |-> [path |-> "", line |-> 0, character |-> 0],
            back |-> [path |-> "", line |-> 0, character |-> 0]]

\* nothing was handed to the line parser
NoParsed == [lines |-> <<>>, done |-> FALSE, mappings |-> <<>>, panic |-> FALSE,
             inverse_panic |-> FALSE]

NoRangeQuery == [path |-> "", start |-> 0, end |-> 0,
                 res |-> [ok |-> FALSE, path |-> "", start |-> 0, end |-> 0],
                 files |-> {}]

NoMessage == [kind |-> "", from |-> "", id |-> 0, method |-> "", path |-> "",
              registered |-> FALSE, before |-> 0,
              malformed |-> FALSE]

\* no notification has been translated yet
NoRelayed == [to |-> "", kind |-> "", id |-> 0, method |-> "", code |-> "",
              uri |-> [scheme |-> "", path |-> ""], range |-> [start |-> 0, end |-> 0],
              fmt |-> "", items |-> <<>>]

DispIdle ==
    /\ client_reqs = EmptyMap /\ server_reqs = EmptyMap /\ next_req_id = 0
    /\ cells = EmptyMap /\ sent = <<>> /\ crashed = FALSE
    /\ inflight = [d \in {"ToServer", "FromServer"} |-> {}]
    /\ origin = EmptyMap /\ fan = EmptyMap
    /\ last = NoMessage

\* no didOpen of the author file is being followed
NoTrack == [active |-> FALSE, before |-> EmptyMap, inner |-> [b \in AuthorFiles |-> 0],
            pairs |-> 0, checked |-> "none"]

\* the reader thread at the head of its loop: the frames the server wrote
\* and the reader has not read, whether the server closed its stdout,
\* whether the worker's channels are still held by the coordinator, and
\* what the reader published
NoReader == [pc |-> "check", frames |-> <<>>, written |-> 0, eof |-> FALSE,
             connected |-> TRUE, published |-> <<>>,
             exit_published |-> FALSE, read_after_exit |-> FALSE]

\* the log channel and Logger::send before the first message: the queued
\* entries, where send stands, the entry it holds, the number of the next
\* entry, what send returned last, and the entries send discarded and the
\* consumer took
NoLogger == [queue |-> <<>>, pc |-> "idle", log_msg |-> 0, next_msg |-> 1,
             result |-> "none", discarded |-> <<>>, delivered |-> <<>>]

\* a channel nothing was sent on: the messages queued, each with the number
\* of messages its peer sent before it, and the number sent so far
NoChannel == [queue |-> <<>>, put |-> 0]

IoIdle ==
    /\ client_receiver = NoChannel
    /\ from_lang_server = NoChannel
    /\ loop_pc = "running"
    /\ reader = NoReader
    /\ logger = NoLogger
    /\ emitted = <<>>
    /\ last_req_id = -1

SyncIdle ==
    /\ open_files = EmptyMap
    /\ author_open = [a \in AuthorFiles |-> FALSE]
    /\ conforming = TRUE
    /\ server_open = [p \in PreFiles |-> 0]
    /\ track = [a \in AuthorFiles |-> NoTrack]
    /\ relayed = NoRelayed

InitMap ==
    /\ overflow_checks \in BOOLEAN
    /\ \/ \E x \in FilesOfChunks(Chunks("X.cc"), MaxChunks),
                y \in SmallFiles :
                  auto_files = [p \in PreFiles |-> IF p = "X.cc" THEN x ELSE y]
       \/ auto_files = ScenarioFiles
    /\ dir_order \in Orders
    /\ map_pc = "start"
    /\ source_mapping = NewSourceMapping
    /\ query = NoQuery
    /\ range_query = NoRangeQuery
    /\ parsed = NoParsed
    /\ DispIdle
    /\ SyncIdle
    /\ IoIdle

\* main: GlobalState::new(.., load_source_mapping(build_dir))
Load ==
    /\ map_pc = "start"
    /\ \E r \in {LoadSourceMapping(overflow_checks, auto_files, dir_order)} :
           /\ map_pc' = IF r.panic THEN "panicked" ELSE "ready"
           /\ source_mapping' = r.sm
    /\ UNCHANGED <<iovars, parsed, overflow_checks, auto_files, dir_order, query, range_query,
                   dispvars, syncvars, last>>

\* the columns a caller asks for
Characters == {0, 7}

\* a caller maps an author location to the preprocessed file and back
QueryRoundTrip ==
    /\ map_pc = "ready"
    /\ query = NoQuery
    /\ range_query = NoRangeQuery
    /\ \E path \in AuthorFiles \cup {UnknownFile}, line \in 0..MaxQueryLine,
          character \in Characters :
         LET fwd == Map(source_mapping, "ToPreprocess", path, line, character)
         IN  query' = [path |-> path, line |-> line, character |-> character,
                       hit  |-> SelectMapping(source_mapping, "ToPreprocess", path, line).found,
                       fwd  |-> fwd,
                       back |-> Map(source_mapping, "FromPreprocess", fwd.path, fwd.line,
                                    fwd.character)]
    /\ UNCHANGED <<iovars, parsed, overflow_checks, auto_files, dir_order, map_pc, source_mapping,
                   range_query, dispvars, syncvars, last>>

\* the ranges a caller asks for: start <= end
QueryRanges == {r \in (0..MaxQueryLine) \X (0..MaxQueryLine) : r[1] <= r[2]}

\* a caller translates a range of an author file and asks for the files
\* the range lies in
QueryRange ==
    /\ map_pc = "ready"
    /\ query = NoQuery
    /\ range_query = NoRangeQuery
    /\ \E path \in AuthorFiles \cup {UnknownFile}, r \in QueryRanges :
         range_query' = [path |-> path, start |-> r[1], end |-> r[2],
                         res  |-> MapRange(source_mapping, "ToPreprocess", path, r[1], r[2]),
                         files |-> MapFilesWithRange(source_mapping, "ToPreprocess", path,
                                                     r[1], r[2])]
    /\ UNCHANGED <<iovars, parsed, overflow_checks, auto_files, dir_order, map_pc, source_mapping,
                   query, dispvars, syncvars, last>>

NextMap == Load \/ QueryRoundTrip \/ QueryRange

SpecMap == InitMap /\ [][NextMap]_vars

-----------------------------------------------------------------------------
(* The mapping the proxy runs with in Spec and SpecSync: a.cpp is built    *)
(* into X.cc and Y.cc, b.cpp into X.cc.                                    *)
(*   X.cc 1..2 <-> a.cpp 0..1 (None),  X.cc 4..5 <-> b.cpp 0..1 (None)     *)
(*   Y.cc 7..8 <-> a.cpp 2..3 (Implementation)                             *)

FixedFiles ==
    [p \in PreFiles |->
        IF p = "X.cc"
        THEN <<LineRef(1, "a.cpp"), Text, Text, LineRef(1, "b.cpp"), Text, Text,
               EndifMark("X.cc")>>
        ELSE <<ImplMark>> \o Repeat(Text, 5)
               \o <<LineRef(3, "a.cpp"), Text, Text, EndifMark("Y.cc")>>]

FixedMapping == LoadSourceMapping(TRUE, FixedFiles, <<"X.cc", "Y.cc">>).sm

-----------------------------------------------------------------------------
(* Claims about the source mapping.                                        *)

Loaded == map_pc = "ready"

\* the number of lines from a mapping's start to its end
Extent(m) == m.src_end_line - m.src_line

\* `other` holds, under `m.dst_file`, the mapping that takes m's image back
HasMirror(other, path, m) ==
    /\ m.dst_file \in DOMAIN other
    /\ \E f \in AllMappingsOf(other[m.dst_file]) :
          /\ f.section = m.section
          /\ f.src_line = m.dst_line
          /\ f.dst_file = path
          /\ f.dst_line = m.src_line
          /\ Extent(f) = Extent(m)

\* C8: after the source mapping is loaded, to_preprocess and from_preprocess
\* are mutual inverses: every mapping of to_preprocess[A] taking A:L to P:L'
\* has in from_preprocess[P] a mapping of the same section and length taking
\* P:L' to A:L, and every mapping of from_preprocess[P] has its mirror in
\* to_preprocess.
C8_InverseMaps ==
    Loaded =>
      /\ \A a \in DOMAIN source_mapping.to_preprocess :
            \A t \in AllMappingsOf(source_mapping.to_preprocess[a]) :
               HasMirror(source_mapping.from_preprocess, a, t)
      /\ \A p \in DOMAIN source_mapping.from_preprocess :
            \A f \in AllMappingsOf(source_mapping.from_preprocess[p]) :
               HasMirror(source_mapping.to_preprocess, p, f)

\* a loaded mapping in which an author file is built into both preprocessed
\* files, one of which holds two mappings
C8_Witness ==
    /\ Loaded
    /\ "a.cpp" \in DOMAIN source_mapping.to_preprocess
    /\ Len(source_mapping.to_preprocess["a.cpp"].files) = 2
    /\ Cardinality(AllMappingsOf(source_mapping.from_preprocess["X.cc"])) = 2
    /\ \E t \in AllMappingsOf(source_mapping.to_preprocess["a.cpp"]) :
          t.src_end_line > t.src_line

SortedAndDisjoint(s) ==
    /\ \A i, j \in 1..Len(s) : i < j => s[i].src_line <= s[j].src_line
    /\ \A i \in 1..Len(s) : i < Len(s) => s[i].src_end_line <= s[i+1].src_line

\* C9: in every loaded source mapping, each of the three section lists of
\* every file, in both directions, is sorted by start line and consecutive
\* mappings a, b satisfy a.src_end_line <= b.src_line.
C9_SortedNonOverlap ==
    Loaded =>
      \A d \in {"ToPreprocess", "FromPreprocess"} :
        \A p \in DOMAIN LineMappingsOf(source_mapping, d) :
          \A sec \in Sections :
            SortedAndDisjoint(SectionList(LineMappingsOf(source_mapping, d)[p], sec))

\* a loaded mapping where one section list of an author file holds mappings
\* into both preprocessed files
C9_Witness ==
    /\ Loaded
    /\ \E a \in DOMAIN source_mapping.to_preprocess, sec \in Sections :
          LET s == SectionList(source_mapping.to_preprocess[a], sec)
          IN  /\ Len(s) >= 2
              /\ s[1].dst_file /= s[2].dst_file
              /\ s[1].src_line < s[2].src_line

\* C10: an author location (A, L) that map(ToPreprocess) translates through
\* some mapping to (P, L') is returned by map(FromPreprocess, P, L').
C10_RoundTrip ==
    query.hit => (query.back.path = query.path /\ query.back.line = query.line)

\* a loaded mapping with an author line that the point query translates
C10_Reached == Loaded /\ query.hit /\ query.fwd.path \in PreFiles

\* a point query has been made
Queried == Loaded /\ query /= NoQuery

\* the mappings of section `sec` of `path` whose lines src_line..src_end_line
\* hold `line`, by their position in the list
Covering(lm, path, line, sec) ==
    IF path \notin DOMAIN lm THEN {}
    ELSE {i \in 1..Len(SectionList(lm[path], sec)) :
            /\ SectionList(lm[path], sec)[i].src_line <= line
            /\ line <= SectionList(lm[path], sec)[i].src_end_line}

\* the sections in the order of the claim
Priority == <<"Implementation", "Interface", "None">>

\* the image of `line` under mapping m
ImageOf(m, line) == [path |-> m.dst_file, line |-> m.dst_line + (line - m.src_line),
                     character |-> query.character]

\* the image the claim describes: taken from the first section of Priority
\* that covers the line (from its last covering mapping); the input when no
\* section does
PriorityImage(lm, path, line) ==
    LET covered == {k \in 1..3 : Covering(lm, path, line, Priority[k]) /= {}}
    IN  IF covered = {} THEN [path |-> path, line |-> line, character |-> query.character]
        ELSE LET k == CHOOSE x \in covered : \A y \in covered : x <= y
                 c == Covering(lm, path, line, Priority[k])
                 i == CHOOSE x \in c : \A y \in c : y <= x
             IN  ImageOf(SectionList(lm[path], Priority[k])[i], line)

\* C11: a point query returns the image from the first of the sections
\* Implementation, Interface, None that has a mapping containing the line, so
\* a line covered by an Interface and an Implementation mapping gets the
\* Implementation image; the image line is dst_start + (line - src_start).
C11_SectionPriority ==
    Queried =>
      query.fwd = PriorityImage(source_mapping.to_preprocess, query.path, query.line)

\* a query of a line that an Interface mapping takes into one preprocessed
\* file and an Implementation mapping into the other
C11_Witness ==
    /\ Queried
    /\ Covering(source_mapping.to_preprocess, query.path, query.line, "Interface") /= {}
    /\ Covering(source_mapping.to_preprocess, query.path, query.line, "Implementation") /= {}
    /\ \E i \in Covering(source_mapping.to_preprocess, query.path, query.line, "Interface") :
          source_mapping.to_preprocess[query.path].interface[i].dst_file /= query.fwd.path
    /\ query.hit

\* the last mapping of a section list with src_line <= line, by position
\* (0: there is none)
LastAtOrBefore(s, line) ==
    LET at == {i \in 1..Len(s) : s[i].src_line <= line}
    IN  IF at = {} THEN 0 ELSE CHOOSE x \in at : \A y \in at : y <= x

\* that mapping, if the line lies before its end (0 otherwise)
UsedExclusive(lm, path, line, sec) ==
    IF path \notin DOMAIN lm THEN 0
    ELSE LET s == SectionList(lm[path], sec)
             i == LastAtOrBefore(s, line)
         IN  IF i > 0 /\ line < s[i].src_end_line THEN i ELSE 0

\* the result of a point query that treats src_end_line as exclusive
ExclusiveImage(lm, path, line) ==
    LET used == {k \in 1..3 : UsedExclusive(lm, path, line, Priority[k]) > 0}
    IN  IF used = {} THEN [path |-> path, line |-> line, character |-> query.character]
        ELSE LET k == CHOOSE x \in used : \A y \in used : x <= y
             IN  ImageOf(SectionList(lm[path], Priority[k])
                           [UsedExclusive(lm, path, line, Priority[k])], line)

\* C12: within a section a point query uses the last mapping with
\* src_line <= line only if line < src_end_line; a line equal to the
\* mapping's src_end_line is not translated by it, and the query falls
\* through to the next section or returns its input unchanged.
C12_EndExclusive ==
    Queried =>
      query.fwd = ExclusiveImage(source_mapping.to_preprocess, query.path, query.line)

\* the mappings extract_line_mappings found in the scenario file
ScenarioLoaded == Loaded /\ auto_files = ScenarioFiles

\* mapping m of section sec relates the n lines of `file` from `first` on to
\* the preprocessed lines from `src` on
Relates(m, sec, file, first, src, n) ==
    /\ m.section = sec /\ m.dst_file = file /\ m.dst_line = first /\ m.src_line = src
    /\ m.src_end_line \in {src + n - 1, src + n}

\* C14 as stated: the scenario file yields exactly two mappings, section None
\* relating a.cpp lines 9..28 to preprocessed lines 3..22 and section
\* Implementation relating b.cpp lines 99..103 to preprocessed lines 36..40.
C14_ParseScenarioStated ==
    ScenarioLoaded =>
      LET flm == source_mapping.from_preprocess["X.cc"]
      IN  /\ Len(flm.none) = 1 /\ Len(flm.implementation) = 1 /\ flm.interface = <<>>
          /\ Relates(flm.none[1], "None", "a.cpp", 9, 3, 20)
          /\ Relates(flm.implementation[1], "Implementation", "b.cpp", 99, 36, 5)

\* C14, amended: the scenario file yields exactly two mappings, section None
\* relating a.cpp lines 9..28 to preprocessed lines 3..22 (closed by the
\* marker, src_end_line 23) and section Implementation relating b.cpp lines
\* 99..103 to preprocessed lines 30..34 (closed by the #endif, src_end_line
\* 34); lines are counted from 0.
C14_ParseScenario ==
    ScenarioLoaded =>
      LET flm == source_mapping.from_preprocess["X.cc"]
      IN  /\ flm.none = <<LineMapping("None", 3, 23, "a.cpp", 9)>>
          /\ flm.implementation = <<LineMapping("Implementation", 30, 34, "b.cpp", 99)>>
          /\ flm.interface = <<>>
          /\ Relates(flm.none[1], "None", "a.cpp", 9, 3, 20)
          /\ Relates(flm.implementation[1], "Implementation", "b.cpp", 99, 30, 5)

\* the scenario file has been parsed and loaded, in either build profile
C14_Witness ==
    /\ ScenarioLoaded
    /\ Cardinality(AllMappingsOf(source_mapping.from_preprocess["X.cc"])) = 2
    /\ DOMAIN source_mapping.to_preprocess = {"a.cpp", "b.cpp"}

\* a range query has been made
RangeQueried == Loaded /\ range_query /= NoRangeQuery

\* C13: map_range maps the start and the end of a range independently; if
\* the two resulting files differ it fails and leaves the path and the range
\* unmodified; otherwise it replaces the path and both endpoints with their
\* translations, so a range with no applicable mapping succeeds unchanged.
C13_MapRange ==
    RangeQueried =>
      LET lm == source_mapping.to_preprocess
          s  == PriorityImage(lm, range_query.path, range_query.start)
          e  == PriorityImage(lm, range_query.path, range_query.end)
      IN  IF s.path /= e.path
          THEN range_query.res = [ok |-> FALSE, path |-> range_query.path,
                                  start |-> range_query.start, end |-> range_query.end]
          ELSE range_query.res = [ok |-> TRUE, path |-> s.path,
                                  start |-> s.line, end |-> e.line]

\* a range query whose endpoints lie in mappings into different preprocessed
\* files, and which failed
C13_Witness ==
    /\ RangeQueried
    /\ ~range_query.res.ok
    /\ PriorityImage(source_mapping.to_preprocess, range_query.path, range_query.start).path
         \in PreFiles
    /\ PriorityImage(source_mapping.to_preprocess, range_query.path, range_query.end).path
         \in PreFiles

-----------------------------------------------------------------------------
(* Messages.  One record shape serves requests, responses and              *)
(* notifications; a field a message does not have holds its idle value.    *)

Uri(scheme, path) == [scheme |-> scheme, path |-> path]
FileUri(path) == Uri("file", path)
NoUri == Uri("", "")

Rng(s, e) == [start |-> s, end |-> e]
NoRange == Rng(0, 0)

\* an item of a result: a symbol, a highlight or a hint, by its lines
Item(path, s, e) == [path |-> path, start |-> s, end |-> e]

Msg(kind, id, method, code, uri, range, fmt, items) ==
    [to |-> "", kind |-> kind, id |-> id, method |-> method, code |-> code,
     uri |-> uri, range |-> range, fmt |-> fmt, items |-> items]

\* lsp_server::Request; ok = the params deserialize for the method
Request(id, method, ok, uri, range) ==
    Msg("request", id, method, IF ok THEN "ok" ELSE "malformed", uri, range, "", <<>>)

\* lsp_server::Response; code: "ok" a result that deserializes, "malformed"
\* one that does not, "null" no result, "error" an error object
Response(id, code, fmt, items) ==
    Msg("response", id, "", code, NoUri, NoRange, fmt, items)

\* lsp_server::Notification
Notification(method, uri) ==
    Msg("notification", 0, method, "ok", uri, NoRange, "", <<>>)

\* Response::new_err(id, ErrorCode::InvalidParams, "malformed params")
InvalidParams(id) == Msg("response", id, "", "InvalidParams", NoUri, NoRange, "", <<>>)

-----------------------------------------------------------------------------
(* GlobalState as the dispatchers use it (global_state.rs).                *)

Reverse(direction) == IF direction = "ToServer" THEN "FromServer" ELSE "ToServer"

\* whom GlobalState::send(direction, ..) writes to
Receiver(direction) == IF direction = "ToServer" THEN "server" ELSE "client"

\* whom a dispatcher of this direction reads from
Sender(direction) == IF direction = "ToServer" THEN "client" ELSE "server"

\* the part of GlobalState a request or response handler works on
Dispatcher ==
    [client_reqs |-> client_reqs, server_reqs |-> server_reqs,
     next_req_id |-> next_req_id, cells |-> cells, sent |-> <<>>, crashed |-> FALSE]

\* GlobalState::reqs
Reqs(D, direction) == IF direction = "ToServer" THEN D.client_reqs ELSE D.server_reqs

SetReqs(D, direction, r) ==
    IF direction = "ToServer" THEN [D EXCEPT !.client_reqs = r]
    ELSE [D EXCEPT !.server_reqs = r]

\* GlobalState::send
Send(D, direction, m) ==
    [D EXCEPT !.sent = Append(@, [m EXCEPT !.to = Receiver(direction)])]

\* `n as i32` of a u32
AsI32(n) == IF n >= U32Modulus \div 2 THEN n - U32Modulus ELSE n

\* RequestId::from(alloc_req_id() as i32): the id handed out
AllocReqId(D) == AsI32(D.next_req_id)

\* GlobalState::alloc_req_id: the state it leaves; `next_req_id += 1`
\* panics at the largest u32 when overflow is checked and wraps otherwise
AfterAlloc(D) ==
    IF D.next_req_id + 1 = U32Modulus /\ overflow_checks
    THEN [D EXCEPT !.crashed = TRUE]
    ELSE [D EXCEPT !.next_req_id = (@ + 1) % U32Modulus]

\* ReqContext.value: nothing, the (source, mapped) pair of
\* handle_source_location, an InlayState or a DocSymbolState
NoValue == [kind |-> "none", source_path |-> "", mapped_path |-> "", cell |-> 0]
LocValue(source, mapped) ==
    [kind |-> "loc", source_path |-> source, mapped_path |-> mapped, cell |-> 0]
ShardValue(kind, source, mapped, cell) ==
    [kind |-> kind, source_path |-> source, mapped_path |-> mapped, cell |-> cell]

\* ReqContext::new
NewReqContext(method, req_id) == [method |-> method, req_id |-> req_id, value |-> NoValue]

\* does this context value hold a strong reference to an accumulator
HoldsCell(v) == v.kind \in {"inlay", "docsym"}

\* dropping a ReqContext value: the strong count of its Rc goes down, and the
\* accumulator is freed with the last reference
DropValue(cs, v) ==
    IF ~HoldsCell(v) \/ v.cell \notin DOMAIN cs THEN cs
    ELSE IF cs[v.cell].strong = 1 THEN MapRemove(cs, v.cell)
    ELSE [cs EXCEPT ![v.cell].strong = @ - 1]

-----------------------------------------------------------------------------
(* RequestDispatcher (dispatch.rs).                                        *)

Forwarded == {"workspace/symbol", "window/showMessageRequest"}
HighlightMethod == "textDocument/documentHighlight"
DocSymbolMethod == "textDocument/documentSymbol"
InlayHintMethod == "textDocument/inlayHint"
CustomMethod    == "custom/x"

\* mutant: the request goes out without an entry in the registry
SendReqUnregistered(D, direction, req_context, req) == Send(D, direction, req)

\* RequestDispatcher::send_req
SendReq(D, direction, req_context, req) ==
    IF D.crashed THEN D
    ELSE Send(SetReqs(D, direction, MapPut(Reqs(D, direction), req.id, req_context)),
              direction, req)

\* RequestDispatcher::prepare_req / forward / finish: the request goes out
\* under a fresh id, its own id is kept in the context
RequestForward(D, direction, req) ==
    SendReq(AfterAlloc(D), direction, NewReqContext(req.method, req.id),
            [req EXCEPT !.id = AllocReqId(D)])

\* mutant: the error goes on in the direction of the request
ReplyMalformedOnward(D, direction, req) == Send(D, direction, InvalidParams(req.id))

\* the reply of on / on_many to a request whose params do not deserialize
ReplyMalformed(D, direction, req) == Send(D, Reverse(direction), InvalidParams(req.id))

\* handle_source_location!: [params, value]
HandleSourceLocation(sm, req) ==
    IF req.uri.scheme /= "file" THEN [params |-> req, value |-> NoValue]
    ELSE LET Mapped(m) ==
                 [params |-> [req EXCEPT !.uri = FileUri(m.path),
                                         !.range = Rng(m.line, m.line)],
                  value  |-> LocValue(req.uri.path, m.path)]
         IN  Mapped(Map(sm, "ToPreprocess", req.uri.path, req.range.start, 0))

\* RequestDispatcher::on with handle_source_location!
RequestOn(D, direction, sm, req) ==
    IF req.code /= "ok" THEN ReplyMalformed(D, direction, req)
    ELSE LET Prepared(h) ==
                 SendReq(AfterAlloc(D), direction,
                         [NewReqContext(req.method, req.id) EXCEPT !.value = h.value],
                         [h.params EXCEPT !.id = AllocReqId(D)])
         IN  Prepared(HandleSourceLocation(sm, req))

\* the loop of on_many: one fresh id and one registry entry per sub-request
RECURSIVE SendMany(_, _, _, _)
SendMany(D, direction, req, subs) ==
    IF subs = <<>> THEN D
    ELSE LET ctx == [NewReqContext(req.method, req.id) EXCEPT !.value = Head(subs).value]
         IN  SendMany(SendReq(AfterAlloc(D), direction, ctx,
                              [Head(subs).params EXCEPT !.id = AllocReqId(D)]),
                      direction, req, Tail(subs))

\* the single sub-request the fan-out handlers fall back to
PassThrough(req) == << [params |-> req, value |-> NoValue] >>

\* handle_req_doc_symbol: the sub-requests, one per preprocessed file
HandleReqDocSymbol(sm, cell, req) ==
    IF req.uri.scheme /= "file" THEN PassThrough(req)
    ELSE LET files == MapFiles(sm, "ToPreprocess", req.uri.path)
         IN  IF files = <<>> THEN PassThrough(req)
             ELSE [i \in 1..Len(files) |->
                     [params |-> [req EXCEPT !.uri = FileUri(files[i])],
                      value  |-> ShardValue("docsym", req.uri.path, files[i], cell)]]

\* the files handle_req_inlay_hint splits a request into (a HashSet)
InlayFiles(sm, req) ==
    IF req.uri.scheme /= "file" THEN {}
    ELSE IF MapFiles(sm, "ToPreprocess", req.uri.path) = <<>> THEN {}
    ELSE MapFilesWithRange(sm, "ToPreprocess", req.uri.path, req.range.start, req.range.end)

\* handle_req_inlay_hint, the files iterated in `order`
HandleReqInlayHint(sm, cell, req, order) ==
    IF order = <<>> THEN PassThrough(req)
    ELSE [i \in 1..Len(order) |->
            [params |-> [req EXCEPT !.uri = FileUri(order[i]),
                                    !.range = Rng(0, FileLength(sm, "FromPreprocess", order[i]))],
             value  |-> ShardValue("inlay", req.uri.path, order[i], cell)]]

\* the accumulator a fan-out handler creates: Rc::new(RefCell::new(..)), one
\* strong reference per sub-request
NewCell(method, n) ==
    [strong |-> n, fmt |-> IF method = InlayHintMethod THEN "Hints" ELSE "None",
     items |-> <<>>]

\* RequestDispatcher::on_many
RequestOnMany(D, direction, req, subs) ==
    IF req.code /= "ok" THEN ReplyMalformed(D, direction, req)
    ELSE LET cell == D.next_req_id
             D1   == IF HoldsCell(subs[1].value)
                     THEN [D EXCEPT !.cells = MapPut(@, cell, NewCell(req.method, Len(subs)))]
                     ELSE D
         IN  SendMany(D1, direction, req, subs)

\* the orders in which a set can be iterated
Orderings(S) ==
    {o \in [1..Cardinality(S) -> S] : \A i, j \in 1..Cardinality(S) : i /= j => o[i] /= o[j]}

\* GlobalState::handle_client_request; `order` is the iteration order of the
\* inlay-hint file set
HandleClientRequest(D, sm, req, order) ==
    CASE req.method \in Forwarded      -> RequestForward(D, "ToServer", req)
      [] req.method = HighlightMethod  -> RequestOn(D, "ToServer", sm, req)
      [] req.method = DocSymbolMethod  ->
           RequestOnMany(D, "ToServer", req, HandleReqDocSymbol(sm, D.next_req_id, req))
      [] req.method = InlayHintMethod  ->
           RequestOnMany(D, "ToServer", req, HandleReqInlayHint(sm, D.next_req_id, req, order))
      [] OTHER                         -> RequestForward(D, "ToServer", req)

\* GlobalState::handle_server_request: every method is forwarded
HandleServerRequest(D, req) == RequestForward(D, "FromServer", req)

-----------------------------------------------------------------------------
(* Response handlers (handler/*.rs).                                       *)

RECURSIVE FilterDocumentSymbols(_, _, _)
\* filter_document_symbols: a symbol is kept, translated, when its range maps
\* into the source file of the request (its selection range is its range)
FilterDocumentSymbols(sm, st, items) ==
    IF items = <<>> THEN <<>>
    ELSE LET it == Head(items)
             Kept(r, rest) ==
                 IF ~r.ok THEN rest
                 ELSE IF r.path /= st.source_path THEN rest
                 ELSE <<Item(it.path, r.start, r.end)>> \o rest
         IN  Kept(MapRange(sm, "FromPreprocess", st.mapped_path, it.start, it.end),
                  FilterDocumentSymbols(sm, st, Tail(items)))

RECURSIVE FilterSymbolInformations(_, _, _)
\* filter_symbol_informations: the location is translated in place, the path
\* compared with the source file is the preprocessed path of the shard
FilterSymbolInformations(sm, st, items) ==
    IF items = <<>> THEN <<>>
    ELSE LET it == Head(items)
             Kept(r, rest) ==
                 IF ~r.ok THEN rest
                 ELSE IF st.mapped_path = st.source_path
                      THEN <<Item(r.path, r.start, r.end)>> \o rest
                 ELSE rest
         IN  Kept(MapRange(sm, "FromPreprocess", it.path, it.start, it.end),
                  FilterSymbolInformations(sm, st, Tail(items)))

RECURSIVE FilterInlayHints(_, _, _)
\* the filter_map of handle_res_inlay_hint
FilterInlayHints(sm, st, items) ==
    IF items = <<>> THEN <<>>
    ELSE LET it == Head(items)
             Kept(m, rest) ==
                 IF m.path = st.source_path
                 THEN <<Item(it.path, m.line, m.line)>> \o rest
                 ELSE rest
         IN  Kept(Map(sm, "FromPreprocess", st.mapped_path, it.start, 0),
                  FilterInlayHints(sm, st, Tail(items)))

\* what a handler hands back to on_collect: Some(result) or None, and the
\* accumulators it leaves
Emit(fmt, items, cs) == [some |-> TRUE, fmt |-> fmt, items |-> items, cells |-> cs]
HoldBack(cs) == [some |-> FALSE, fmt |-> "", items |-> <<>>, cells |-> cs]

\* Rc::try_unwrap(req_state.result).ok(): with one strong reference the value
\* is moved out, otherwise this reference is dropped
TryUnwrap(cs, cell) ==
    IF cs[cell].strong = 1
    THEN Emit(cs[cell].fmt, cs[cell].items, MapRemove(cs, cell))
    ELSE HoldBack([cs EXCEPT ![cell].strong = @ - 1])

\* handle_res_inlay_hint
HandleResInlayHint(sm, cs, ctx, res) ==
    IF ctx.value.kind /= "inlay" THEN Emit(res.fmt, res.items, cs)
    ELSE TryUnwrap([cs EXCEPT ![ctx.value.cell].items =
                                  @ \o FilterInlayHints(sm, ctx.value, res.items)],
                   ctx.value.cell)

\* the match of handle_res_doc_symbol: the shard joins the accumulator when
\* it is the first or has the accumulator's format
JoinSymbols(acc, fmt, filtered) ==
    IF acc.fmt = "None" THEN [acc EXCEPT !.fmt = fmt, !.items = filtered]
    ELSE IF acc.fmt = fmt THEN [acc EXCEPT !.items = @ \o filtered]
    ELSE acc

\* handle_res_doc_symbol
HandleResDocSymbol(sm, cs, ctx, res) ==
    IF ctx.value.kind /= "docsym" THEN Emit(res.fmt, res.items, cs)
    ELSE TryUnwrap([cs EXCEPT ![ctx.value.cell] =
                        JoinSymbols(@, res.fmt,
                                    IF res.fmt = "Flat"
                                    THEN FilterSymbolInformations(sm, ctx.value, res.items)
                                    ELSE FilterDocumentSymbols(sm, ctx.value, res.items))],
                   ctx.value.cell)

RECURSIVE RetainHighlights(_, _, _)
\* the retain_mut of handle_res_document_highlight
RetainHighlights(sm, st, items) ==
    IF items = <<>> THEN <<>>
    ELSE LET it == Head(items)
             Kept(r, rest) ==
                 IF ~r.ok THEN rest
                 ELSE IF r.path = st.source_path THEN <<Item(it.path, r.start, r.end)>> \o rest
                 ELSE rest
         IN  Kept(MapRange(sm, "FromPreprocess", st.mapped_path, it.start, it.end),
                  RetainHighlights(sm, st, Tail(items)))

\* handle_res_document_highlight
HandleResDocumentHighlight(sm, ctx, res) ==
    IF ctx.value.kind /= "loc" THEN res.items
    ELSE RetainHighlights(sm, ctx.value, res.items)

-----------------------------------------------------------------------------
(* ResponseDispatcher (dispatch.rs).                                       *)

\* mutant: the response keeps the id it arrived with
KeepId(ctx, res) == res

\* send_res, first statement: the id of the originating request is restored
RestoreId(ctx, res) == [res EXCEPT !.id = ctx.req_id]

\* ResponseDispatcher::send_res
SendRes(D, direction, ctx, res) == Send(D, direction, RestoreId(ctx, res))

\* mutant: the context stays registered
KeepRegistered(reqs, id) == reqs

\* ResponseDispatcher::new, the registry after the lookup
Unregister(reqs, id) == MapRemove(reqs, id)

\* util::cast_res succeeds
CastRes(res) == res.code = "ok"

\* build_res(id, mapped)
BuildRes(id, fmt, items) == Response(id, "ok", fmt, items)

\* ResponseDispatcher::forward / finish with a registered context; the
\* context is dropped afterwards
ResponseForward(D, direction, ctx, res) ==
    [SendRes(D, direction, ctx, res) EXCEPT !.cells = DropValue(@, ctx.value)]

\* ResponseDispatcher::on with handle_res_document_highlight
ResponseOn(D, direction, sm, ctx, res) ==
    IF res.code \in {"error", "InvalidParams"} THEN SendRes(D, direction, ctx, res)
    ELSE IF CastRes(res)
         THEN SendRes(D, direction, ctx,
                      BuildRes(res.id, res.fmt, HandleResDocumentHighlight(sm, ctx, res)))
    ELSE D

\* ResponseDispatcher::on_collect with handler result h
ResponseOnCollect(D, direction, ctx, res, h) ==
    IF res.code \in {"error", "InvalidParams"}
    THEN [SendRes(D, direction, ctx,
                  [res EXCEPT !.id = ctx.req_id, !.fmt = "", !.items = <<>>])
            EXCEPT !.cells = DropValue(@, ctx.value)]
    ELSE IF ~CastRes(res)
         THEN [D EXCEPT !.crashed = TRUE]
    ELSE IF h.some
         THEN SendRes([D EXCEPT !.cells = h.cells], direction, ctx,
                      BuildRes(ctx.req_id, h.fmt, h.items))
    ELSE [D EXCEPT !.cells = h.cells]

\* GlobalState::handle_server_response, after ResponseDispatcher::new found
\* the context ctx
ServerResponseChain(D, sm, ctx, res) ==
    CASE ctx.method \in Forwarded     -> ResponseForward(D, "FromServer", ctx, res)
      [] ctx.method = HighlightMethod -> ResponseOn(D, "FromServer", sm, ctx, res)
      [] ctx.method = DocSymbolMethod ->
           ResponseOnCollect(D, "FromServer", ctx, res,
                             HandleResDocSymbol(sm, D.cells, ctx, res))
      [] ctx.method = InlayHintMethod ->
           ResponseOnCollect(D, "FromServer", ctx, res,
                             HandleResInlayHint(sm, D.cells, ctx, res))
      [] OTHER                        -> ResponseForward(D, "FromServer", ctx, res)

\* mutant: a response that matches no request is passed on as it is
HandleServerResponsePassing(D, sm, res) ==
    IF res.id \notin DOMAIN D.client_reqs THEN Send(D, "FromServer", res)
    ELSE ServerResponseChain([D EXCEPT !.client_reqs = Unregister(@, res.id)],
                             sm, D.client_reqs[res.id], res)

\* GlobalState::handle_server_response
HandleServerResponse(D, sm, res) ==
    IF res.id \notin DOMAIN D.client_reqs THEN D
    ELSE ServerResponseChain([D EXCEPT !.client_reqs = Unregister(@, res.id)],
                             sm, D.client_reqs[res.id], res)

\* GlobalState::handle_client_response: every method is forwarded
HandleClientResponse(D, res) ==
    IF res.id \notin DOMAIN D.server_reqs THEN D
    ELSE ResponseForward([D EXCEPT !.server_reqs = Unregister(@, res.id)],
                         "ToServer", D.server_reqs[res.id], res)

-----------------------------------------------------------------------------
(* Spec: the proxy between a client and a server that send requests and    *)
(* answer them in any order.                                               *)

\* outbound ids the proxy allocates in a run
MaxRequests == 3

\* longest item list of a response
MaxItems == 1

ClientIds == {7}
ServerIds == {0}

ClientMethods ==
    {"workspace/symbol", HighlightMethod, DocSymbolMethod, InlayHintMethod, CustomMethod}
ServerMethods == {"window/showMessageRequest", CustomMethod}

ReqUris == {FileUri("a.cpp"), FileUri(UnknownFile), Uri("untitled", "n")}
ReqRanges == {Rng(0, 1), Rng(0, 3), Rng(1, 2), Rng(5, 5)}
ReqPositions == {Rng(0, 0), Rng(2, 2)}

\* the params a client sends with a method; one malformed request for each
\* method whose params the proxy deserializes
ParamsOf(method) ==
    CASE method = HighlightMethod ->
           {[ok |-> TRUE, uri |-> u, range |-> r] : u \in ReqUris, r \in ReqPositions}
             \cup {[ok |-> FALSE, uri |-> NoUri, range |-> NoRange]}
      [] method = DocSymbolMethod ->
           {[ok |-> TRUE, uri |-> u, range |-> NoRange] : u \in ReqUris}
             \cup {[ok |-> FALSE, uri |-> NoUri, range |-> NoRange]}
      [] method = InlayHintMethod ->
           {[ok |-> TRUE, uri |-> u, range |-> r] : u \in ReqUris, r \in ReqRanges}
             \cup {[ok |-> FALSE, uri |-> NoUri, range |-> NoRange]}
      [] OTHER -> {[ok |-> TRUE, uri |-> NoUri, range |-> NoRange]}

ClientRequests ==
    UNION {{Request(id, method, p.ok, p.uri, p.range) : id \in ClientIds, p \in ParamsOf(method)} :
             method \in ClientMethods}

ServerRequests ==
    {Request(id, method, TRUE, NoUri, NoRange) : id \in ServerIds, method \in ServerMethods}

SeqsUpTo(S, n) == UNION {[1..k -> S] : k \in 0..n}

\* lines of the preprocessed files a result item may lie on
NestedItems == {Item("", 1, 2), Item("", 4, 4), Item("", 7, 8), Item("", 2, 4)}
FlatItems   == {Item(p, r[1], r[2]) : p \in PreFiles, r \in {<<1, 2>>, <<7, 8>>}}
HintItems   == {Item("", 1, 1), Item("", 4, 4), Item("", 7, 7)}

\* the results that deserialize for a method
ResultsOf(method) ==
    CASE method = DocSymbolMethod ->
           {[fmt |-> "Flat", items |-> s] : s \in SeqsUpTo(FlatItems, MaxItems)}
             \cup {[fmt |-> "Nested", items |-> s] : s \in SeqsUpTo(NestedItems, MaxItems)}
      [] method = InlayHintMethod ->
           {[fmt |-> "Hints", items |-> s] : s \in SeqsUpTo(HintItems, MaxItems)}
      [] method = HighlightMethod ->
           {[fmt |-> "Highlights", items |-> s] : s \in SeqsUpTo(NestedItems, MaxItems)}
      [] OTHER -> {[fmt |-> "Raw", items |-> <<>>]}

\* the responses a peer may send to the request registered as `reqs[id]`
ResponsesTo(reqs, id) ==
    IF id \notin DOMAIN reqs THEN {Response(id, "ok", "Raw", <<>>)}
    ELSE {Response(id, code, "", <<>>) : code \in {"error", "null", "malformed"}}
           \cup {Response(id, "ok", r.fmt, r.items) : r \in ResultsOf(reqs[id].method)}

\* the ids a peer may answer: the ids in flight in either direction and one
\* the proxy never allocated
AnswerIds == (DOMAIN client_reqs) \cup (DOMAIN server_reqs) \cup {MaxRequests}

InitDisp ==
    /\ overflow_checks = TRUE
    /\ auto_files = FixedFiles
    /\ dir_order = <<"X.cc", "Y.cc">>
    /\ map_pc = "ready"
    /\ source_mapping = FixedMapping
    /\ query = NoQuery
    /\ range_query = NoRangeQuery
    /\ parsed = NoParsed
    /\ DispIdle
    /\ SyncIdle
    /\ IoIdle

\* the messages of kind `kind` in a sequence
OfKind(msgs, kind) == {i \in 1..Len(msgs) : msgs[i].kind = kind}

Restrict(f, S) == [x \in (DOMAIN f) \cap S |-> f[x]]

\* the fan-out request the sub-request `id` belongs to
FanOf(id) == CHOOSE c \in DOMAIN fan : c <= id /\ id < c + fan[c].n

\* the items of a shard that the handler of its context keeps
Surviving(sm, ctx, res) ==
    CASE ctx.value.kind = "inlay"  -> FilterInlayHints(sm, ctx.value, res.items)
      [] ctx.value.kind = "docsym" ->
           IF res.fmt = "Flat" THEN FilterSymbolInformations(sm, ctx.value, res.items)
           ELSE FilterDocumentSymbols(sm, ctx.value, res.items)
      [] OTHER -> res.items

RECURSIVE DueSymbols(_, _, _, _)
\* the symbols of a documentSymbol shard that lie in the author file of the
\* request, translated: a flat symbol by its own location, a nested one by
\* its range in the preprocessed file of the shard
DueSymbols(sm, st, fmt, items) ==
    IF items = <<>> THEN <<>>
    ELSE LET it == Head(items)
             Kept(r, rest) ==
                 IF r.ok /\ r.path = st.source_path
                 THEN <<Item(IF fmt = "Flat" THEN r.path ELSE it.path, r.start, r.end)>>
                        \o rest
                 ELSE rest
         IN  Kept(MapRange(sm, "FromPreprocess",
                           IF fmt = "Flat" THEN it.path ELSE st.mapped_path,
                           it.start, it.end),
                  DueSymbols(sm, st, fmt, Tail(items)))

\* the handler of a shard's context kept exactly the symbols due
KeptDue(sm, ctx, res) ==
    (ctx.value.kind = "docsym" /\ res.code = "ok") =>
       Surviving(sm, ctx, res) = DueSymbols(sm, ctx.value, res.fmt, res.items)

\* the program state a handler leaves
Commit(D) ==
    /\ client_reqs' = D.client_reqs
    /\ server_reqs' = D.server_reqs
    /\ next_req_id' = D.next_req_id
    /\ cells' = D.cells
    /\ sent' = D.sent
    /\ crashed' = D.crashed

\* history: a request of `peer` was processed and D.sent went out
RecordRequest(D, direction, req) ==
    LET out == {D.sent[i].id : i \in OfKind(D.sent, "request")}
        fans == Restrict(fan, {c \in DOMAIN fan : fan[c].answered < fan[c].n})
    IN  /\ inflight' = [inflight EXCEPT ![direction] = @ \cup out]
        /\ origin' = [k \in ((DOMAIN origin) \cap (inflight["ToServer"] \cup inflight["FromServer"]))
                              \cup out |->
                        IF k \in out THEN [id |-> req.id, peer |-> Sender(direction)]
                        ELSE origin[k]]
        /\ fan' = IF req.method \in {DocSymbolMethod, InlayHintMethod} /\ out /= {}
                  THEN MapPut(fans, next_req_id,
                              [n |-> Cardinality(out), answered |-> 0, emitted |-> 0,
                               allok |-> TRUE, client_id |-> req.id, expected |-> <<>>,
                               good |-> TRUE, wellformed |-> TRUE, due |-> TRUE,
                               flat |-> FALSE])
                  ELSE fans
        /\ last' = [kind |-> "request", from |-> Sender(direction), id |-> req.id,
                    method |-> req.method, path |-> req.uri.path,
                    registered |-> FALSE, before |-> 0,
                    malformed |-> req.code /= "ok", range |-> req.range]

\* history: a response of `peer` was processed and D.sent went out
RecordResponse(D, direction, reqs, res) ==
    LET known == res.id \in DOMAIN reqs
        fans  == Restrict(fan, {c \in DOMAIN fan : fan[c].answered < fan[c].n})
        isfan == known /\ reqs[res.id].method \in {DocSymbolMethod, InlayHintMethod}
        out   == OfKind(D.sent, "response")
    IN  /\ inflight' = [inflight EXCEPT ![Reverse(direction)] = @ \ {res.id}]
        /\ origin' = Restrict(origin, inflight["ToServer"] \cup inflight["FromServer"])
        /\ fan' = IF ~isfan THEN fans
                  ELSE LET c   == FanOf(res.id)
                           exp == IF res.code = "ok"
                                  THEN fan[c].expected
                                         \o Surviving(source_mapping, reqs[res.id], res)
                                  ELSE fan[c].expected
                       IN  [fans EXCEPT ![c].answered = @ + 1,
                                        ![c].emitted = @ + Cardinality(out),
                                        ![c].allok = @ /\ res.code = "ok",
                                        ![c].wellformed = @ /\ res.code /= "malformed",
                                        ![c].due = @ /\ KeptDue(source_mapping, reqs[res.id], res),
                                        ![c].flat = @ \/ res.fmt = "Flat",
                                        ![c].expected = exp,
                                        ![c].good = @ /\ \A i \in out :
                                            /\ D.sent[i].id = fan[c].client_id
                                            /\ D.sent[i].to = "client"
                                            /\ D.sent[i].code = "ok"
                                            /\ D.sent[i].items = exp]
        /\ last' = [kind |-> "response", from |-> Sender(direction), id |-> res.id,
                    method |-> IF known THEN reqs[res.id].method ELSE "", path |-> "",
                    registered |-> known, before |-> Cardinality(DOMAIN reqs),
                    malformed |-> res.code \notin {"ok", "error"}]

\* main_loop, Message::Request from the client
ClientRequest ==
    /\ ~crashed
    /\ \E req \in ClientRequests :
         \E order \in Orderings(InlayFiles(source_mapping, req)) :
            LET D == HandleClientRequest(Dispatcher, source_mapping, req, order)
            IN  /\ D.next_req_id <= MaxRequests
                /\ Commit(D)
                /\ RecordRequest(D, "ToServer", req)
    /\ UNCHANGED <<mapvars, iovars, syncvars>>

\* main_loop, Message::Response from the server
ServerResponse ==
    /\ ~crashed
    /\ \E id \in AnswerIds :
         \E res \in ResponsesTo(client_reqs, id) :
            LET D == HandleServerResponse(Dispatcher, source_mapping, res)
            IN  /\ Commit(D)
                /\ RecordResponse(D, "FromServer", client_reqs, res)
    /\ UNCHANGED <<mapvars, iovars, syncvars>>

\* main_loop, Message::Request from the server
ServerRequest ==
    /\ ~crashed
    /\ \E req \in ServerRequests :
         LET D == HandleServerRequest(Dispatcher, req)
         IN  /\ D.next_req_id <= MaxRequests
             /\ Commit(D)
             /\ RecordRequest(D, "FromServer", req)
    /\ UNCHANGED <<mapvars, iovars, syncvars>>

\* main_loop, Message::Response from the client
ClientResponse ==
    /\ ~crashed
    /\ \E id \in AnswerIds :
         \E res \in ResponsesTo(server_reqs, id) :
            LET D == HandleClientResponse(Dispatcher, res)
            IN  /\ Commit(D)
                /\ RecordResponse(D, "ToServer", server_reqs, res)
    /\ UNCHANGED <<mapvars, iovars, syncvars>>

Next == ClientRequest \/ ServerResponse \/ ServerRequest \/ ClientResponse

Spec == InitDisp /\ [][Next]_vars

-----------------------------------------------------------------------------
(* Claims about the dispatcher.                                            *)

\* the responses the last handler emitted
SentResponses == {sent[i] : i \in OfKind(sent, "response")}

\* C1: every response the proxy emits toward a peer carries the id this peer
\* used in the request that originated it: the reply to a malformed request
\* carries the id of that request, and a response passed on by on,
\* on_collect, forward or finish carries the id recorded when the request
\* came in, never the outbound id the proxy allocated.
C1_OriginalId ==
    \A m \in SentResponses :
       IF last.kind = "request"
       THEN m.id = last.id /\ m.to = last.from
       ELSE /\ last.id \in DOMAIN origin
            /\ m.id = origin[last.id].id
            /\ m.to = origin[last.id].peer

\* a response reached the client under the client's id 7 in answer to a
\* server response that carried another, proxy-allocated id
C1_Witness ==
    /\ last.kind = "response" /\ last.from = "server" /\ last.id /= 7
    /\ \E m \in SentResponses : m.to = "client" /\ m.id = 7

\* C2: for a fan-out request split into N >= 1 sub-requests whose responses
\* are all successful with non-null results, the proxy emits nothing toward
\* the client while fewer than N responses are processed, and exactly one
\* response, under the client's id and holding the surviving items of all N
\* shards, when the N-th is processed.
C2_FanOutMerge ==
    \A c \in DOMAIN fan :
       fan[c].allok =>
          /\ fan[c].answered < fan[c].n => fan[c].emitted = 0
          /\ fan[c].answered = fan[c].n => fan[c].emitted = 1 /\ fan[c].good

\* C3: each direction's Request Registry holds exactly the outbound requests
\* of that direction that were sent and not yet answered; processing a
\* response whose id is registered removes exactly that entry, so the
\* registry shrinks by one and the context of the answered request is gone.
C3_RegistryInFlight ==
    /\ DOMAIN client_reqs = inflight["ToServer"]
    /\ DOMAIN server_reqs = inflight["FromServer"]
    /\ (last.kind = "response" /\ last.registered) =>
          LET reqs == IF last.from = "server" THEN client_reqs ELSE server_reqs
          IN  /\ last.id \notin DOMAIN reqs
              /\ Cardinality(DOMAIN reqs) = last.before - 1

\* a registered response was processed while another request of the same
\* direction stays in flight
C3_Witness ==
    /\ last.kind = "response" /\ last.registered /\ last.from = "server"
    /\ last.before = 2
    /\ Cardinality(DOMAIN client_reqs) = 1
    /\ server_reqs /= EmptyMap

\* C19: a request whose params do not deserialize for a method handled by on
\* or on_many is answered with an InvalidParams error sent back to the peer
\* it came from under its own id; nothing goes to the opposite peer, no
\* Request Registry entry is created, and the proxy goes on dispatching.
C19_MalformedRequest ==
    [][(last'.kind = "request" /\ last'.malformed) =>
          /\ sent' = << [InvalidParams(last'.id) EXCEPT !.to = last'.from] >>
          /\ client_reqs' = client_reqs
          /\ server_reqs' = server_reqs
          /\ ~crashed']_vars

\* a malformed request of the client was answered while an earlier request
\* was waiting for the server, and that request is still registered
C19_Witness ==
    /\ last.kind = "request" /\ last.malformed /\ last.from = "client"
    /\ Len(sent) = 1
    /\ sent[1].code = "InvalidParams" /\ sent[1].to = "client" /\ sent[1].id = last.id
    /\ client_reqs /= EmptyMap
    /\ ~crashed

\* C20: a response whose id is not in the Request Registry of the opposite
\* direction is dropped: nothing is emitted to either peer and both
\* registries, the refcount map and the id counter stay as they are.
C20_UnknownResponse ==
    [][(last'.kind = "response" /\ ~last'.registered) =>
          /\ sent' = <<>>
          /\ client_reqs' = client_reqs
          /\ server_reqs' = server_reqs
          /\ open_files' = open_files
          /\ next_req_id' = next_req_id]_vars

\* a response of the server under an id that only the registry of the
\* requests sent to the client holds was dropped, both registries non-empty
C20_Witness ==
    /\ last.kind = "response" /\ ~last.registered /\ last.from = "server"
    /\ last.id \in DOMAIN server_reqs
    /\ client_reqs /= EmptyMap
    /\ sent = <<>>

\* the methods whose responses the proxy deserializes, by on or on_collect
Deserialized == {HighlightMethod, DocSymbolMethod, InlayHintMethod}

\* the proxy processed a registered response whose payload does not
\* deserialize for its method
MalformedResponse ==
    /\ last.kind = "response" /\ last.registered /\ last.malformed
    /\ last.method \in Deserialized

\* C21: a response or notification whose payload does not deserialize for
\* its method is logged and dropped without terminating the proxy, for
\* responses handled by on as well as by on_collect, and later messages are
\* dispatched.
C21_MalformedDropped ==
    MalformedResponse => sent = <<>> /\ ~crashed

\* as C21, for the responses handled by on
C21_MalformedDroppedByOn ==
    (MalformedResponse /\ last.method = HighlightMethod) => sent = <<>> /\ ~crashed

\* a malformed response to a documentHighlight request was dropped
C21_OnReached == MalformedResponse /\ last.method = HighlightMethod /\ sent = <<>>

\* the proxy processed a documentSymbol or inlayHint request of the client
FanOutHandled ==
    /\ last.kind = "request" /\ ~last.malformed /\ last.from = "client"
    /\ last.method \in {DocSymbolMethod, InlayHintMethod}

\* C25: for a fan-out request all N sub-requests are registered and sent,
\* each under a distinct fresh id and with its own ReqContext that carries
\* the id and the method of the client's request, within the one handler run
\* (before any other inbound message is processed); N is at least 1 for
\* every documentSymbol and inlayHint request.
C25_FanOutRegistered ==
    [][FanOutHandled' =>
          /\ Len(sent') >= 1
          /\ \A i \in 1..Len(sent') :
                /\ sent'[i].kind = "request" /\ sent'[i].to = "server"
                /\ sent'[i].method = last'.method
                /\ sent'[i].id \notin (DOMAIN client_reqs) \cup (DOMAIN server_reqs)
                /\ sent'[i].id \in DOMAIN client_reqs'
                /\ client_reqs'[sent'[i].id].req_id = last'.id
                /\ client_reqs'[sent'[i].id].method = last'.method
                /\ \A j \in 1..Len(sent') : i /= j => sent'[i].id /= sent'[j].id
          /\ DOMAIN client_reqs' = (DOMAIN client_reqs) \cup {sent'[i].id : i \in 1..Len(sent')}]_vars

\* a documentSymbol request of a.cpp went out as two sub-requests while an
\* earlier request was in flight
C25_Witness ==
    /\ FanOutHandled
    /\ Len(sent) = 2
    /\ Cardinality(DOMAIN client_reqs) = 3
    /\ \A i \in 1..2 : client_reqs[sent[i].id].req_id = last.id

\* C26: for every client request the proxy emits at most one response
\* toward the client, also for a fan-out request of which some shard
\* responses are errors while other shards succeed.
C26_AtMostOneResponse ==
    /\ \A c \in DOMAIN fan : fan[c].emitted <= 1
    /\ (last.kind = "response" /\ last.from = "server") =>
          Cardinality(OfKind(sent, "response")) <= 1

\* C27: when the server has answered every sub-request of a fan-out request
\* with a well-formed response (a null result included), the client has
\* received a response to its request.
C27_FanOutAnswered ==
    \A c \in DOMAIN fan :
       (fan[c].answered = fan[c].n /\ fan[c].wellformed) => fan[c].emitted >= 1

\* as C27, when every shard is answered with a result that is not null
C27_FanOutAnsweredOk ==
    \A c \in DOMAIN fan :
       (fan[c].answered = fan[c].n /\ fan[c].allok) => fan[c].emitted >= 1

-----------------------------------------------------------------------------
(* Document synchronisation (handler/document_sync.rs).                    *)

DidOpenMethod  == "textDocument/didOpen"
DidCloseMethod == "textDocument/didClose"

\* the refcount of a preprocessed file, an absent entry counting as 0
Count(of, file) == IF file \in DOMAIN of THEN of[file] ELSE 0

\* mutant: the count of an already open file is left alone
NotIncremented(count) == count

\* handle_did_open_text_document: `*count += 1`
Incremented(count) == (count + 1) % U32Modulus

\* mutant: every positive count is only decremented
OpenedAtAll(count) == count > 0

\* handle_did_close_text_document: `*count > 1`, the file stays open
OpenedElsewhere(count) == count > 1

\* mutant: the count of a file that stays open is left alone
NotDecremented(count) == count

\* handle_did_close_text_document: `*count -= 1`
Decremented(count) == (count - 1) % U32Modulus

\* what a handler returns and leaves: the notifications to send and open_files
SyncResult(of, out) == [open_files |-> of, out |-> out]

RECURSIVE OpenFiles(_, _, _)
\* the loop of handle_did_open_text_document over the preprocessed files
OpenFiles(files, r, not) ==
    IF files = <<>> THEN r
    ELSE LET file == Head(files)
         IN  IF file \in DOMAIN r.open_files
             THEN OpenFiles(Tail(files),
                            SyncResult([r.open_files EXCEPT ![file] = Incremented(@)], r.out),
                            not)
             ELSE OpenFiles(Tail(files),
                            SyncResult(MapPut(r.open_files, file, 1),
                                       Append(r.out, [not EXCEPT !.uri = FileUri(file)])),
                            not)

\* handle_did_open_text_document
HandleDidOpenTextDocument(sm, of, not) ==
    IF not.uri.scheme /= "file" THEN SyncResult(of, <<not>>)
    ELSE LET files == MapFiles(sm, "ToPreprocess", not.uri.path)
         IN  IF files = <<>> THEN SyncResult(of, <<not>>)
             ELSE OpenFiles(files, SyncResult(of, <<>>), not)

\* mutant: the entry of a closed file stays, with a count of 0
LeftAtZero(of, file) == [of EXCEPT ![file] = 0]

\* handle_did_close_text_document: `state.open_files.remove(file)`
Removed(of, file) == MapRemove(of, file)

RECURSIVE CloseFiles(_, _, _)
\* the loop of handle_did_close_text_document over the preprocessed files
CloseFiles(files, r, not) ==
    IF files = <<>> THEN r
    ELSE LET file == Head(files)
         IN  IF file \notin DOMAIN r.open_files THEN CloseFiles(Tail(files), r, not)
             ELSE IF OpenedElsewhere(r.open_files[file])
                  THEN CloseFiles(Tail(files),
                                  SyncResult([r.open_files EXCEPT ![file] = Decremented(@)],
                                             r.out),
                                  not)
             ELSE CloseFiles(Tail(files),
                             SyncResult(Removed(r.open_files, file),
                                        Append(r.out, [not EXCEPT !.uri = FileUri(file)])),
                             not)

\* mutant: the scheme of the URI is not looked at
HandleDidCloseAnyScheme(sm, of, not) ==
    LET files == MapFiles(sm, "ToPreprocess", not.uri.path)
    IN  IF files = <<>> THEN SyncResult(of, <<not>>)
        ELSE CloseFiles(files, SyncResult(of, <<>>), not)

\* handle_did_close_text_document
HandleDidCloseTextDocument(sm, of, not) ==
    IF not.uri.scheme /= "file" THEN SyncResult(of, <<not>>)
    ELSE LET files == MapFiles(sm, "ToPreprocess", not.uri.path)
         IN  IF files = <<>> THEN SyncResult(of, <<not>>)
             ELSE CloseFiles(files, SyncResult(of, <<>>), not)

\* NotificationDispatcher::send_many to the server
SendMany2Server(out) == [i \in 1..Len(out) |-> [out[i] EXCEPT !.to = "server"]]

\* NotificationDispatcher::_on: a notification whose params do not
\* deserialize is dropped
NotificationOnMany(r, of, not) ==
    IF not.code /= "ok" THEN SyncResult(of, <<>>) ELSE r

\* GlobalState::handle_client_notification for didOpen and didClose
HandleClientNotification(sm, of, not) ==
    IF not.method = DidOpenMethod
    THEN NotificationOnMany(HandleDidOpenTextDocument(sm, of, not), of, not)
    ELSE NotificationOnMany(HandleDidCloseTextDocument(sm, of, not), of, not)

-----------------------------------------------------------------------------
(* SpecSync: a client that opens and closes documents in any order.        *)

\* highest refcount a run drives a preprocessed file to
MaxOpenCount == 2

\* most didOpen without a didClose the server is left with per file
MaxOutstanding == 2

\* most didClose without a didOpen the server is sent per file
MaxUnmatchedCloses == 1

\* the documents the client names: the author files, the preprocessed files
\* themselves, a file the mapping does not know and two documents that are
\* no files, one of them with the path of an author file
SyncUris ==
    {FileUri(f) : f \in AuthorFiles \cup PreFiles \cup {UnknownFile}}
      \cup {Uri("untitled", "n"), Uri("untitled", "a.cpp")}

SyncNotifications ==
    {Notification(method, uri) : method \in {DidOpenMethod, DidCloseMethod}, uri \in SyncUris}
      \cup {[Notification(method, NoUri) EXCEPT !.code = "malformed"] :
              method \in {DidOpenMethod, DidCloseMethod}}

InitSync ==
    /\ overflow_checks = TRUE
    /\ auto_files = FixedFiles
    /\ dir_order = <<"X.cc", "Y.cc">>
    /\ map_pc = "ready"
    /\ source_mapping = FixedMapping
    /\ query = NoQuery
    /\ range_query = NoRangeQuery
    /\ parsed = NoParsed
    /\ DispIdle
    /\ SyncIdle
    /\ IoIdle

\* the notification names an author file the mapping knows
ForAuthorFile(not) ==
    /\ not.code = "ok"
    /\ not.uri.scheme = "file"
    /\ not.uri.path \in AuthorFiles
    /\ MapFiles(source_mapping, "ToPreprocess", not.uri.path) /= <<>>

\* the didOpen has to read a preprocessed file: std::fs::read_to_string
ReadsFile(not) ==
    /\ not.method = DidOpenMethod
    /\ ForAuthorFile(not)
    /\ \E i \in DOMAIN MapFiles(source_mapping, "ToPreprocess", not.uri.path) :
          MapFiles(source_mapping, "ToPreprocess", not.uri.path)[i] \notin DOMAIN open_files

\* how many notifications of `method` for `file` a sequence holds
NumSent(msgs, method, file) ==
    Cardinality({i \in 1..Len(msgs) :
                    /\ msgs[i].kind = "notification"
                    /\ msgs[i].method = method
                    /\ msgs[i].uri = FileUri(file)})

\* history: the didOpen of author file `a` starts to be followed, and counts
\* as an open in between for the other author files being followed
TrackOpen(a, of) ==
    [t \in AuthorFiles |->
        IF t = a
        THEN [active |-> TRUE, before |-> of, inner |-> [b \in AuthorFiles |-> 0],
              pairs |-> 0, checked |-> "none"]
        ELSE IF track[t].active THEN [track[t] EXCEPT !.inner[a] = @ + 1]
        ELSE track[t]]

\* history: the didClose of author file `a` ends what its didOpen started, if
\* every didOpen in between was matched by its didClose; for the others it
\* matches an open in between, or ends their following
TrackClose(a, of) ==
    [t \in AuthorFiles |->
        IF ~track[t].active THEN track[t]
        ELSE IF t = a
             THEN IF \A b \in AuthorFiles : track[t].inner[b] = 0
                  THEN [NoTrack EXCEPT !.pairs = track[t].pairs,
                                       !.checked = IF of = track[t].before
                                                   THEN "restored" ELSE "differs"]
                  ELSE NoTrack
        ELSE IF track[t].inner[a] > 0
             THEN [track[t] EXCEPT !.inner[a] = @ - 1, !.pairs = 1]
        ELSE NoTrack]

\* history of a notification processed with result r
RecordNotification(not, r) ==
    LET a == not.uri.path IN
    /\ last' = [kind |-> "notification", from |-> "client", id |-> 0,
                method |-> not.method, path |-> a,
                registered |-> ForAuthorFile(not), before |-> 0,
                malformed |-> not.code /= "ok", given |-> not]
    /\ server_open' = [p \in PreFiles |->
                          server_open[p] + NumSent(r.out, DidOpenMethod, p)
                                         - NumSent(r.out, DidCloseMethod, p)]
    /\ IF ForAuthorFile(not)
       THEN /\ author_open' = [author_open EXCEPT ![a] = (not.method = DidOpenMethod)]
            /\ conforming' = (conforming /\ (author_open[a] = (not.method = DidCloseMethod)))
            /\ track' = IF not.method = DidOpenMethod THEN TrackOpen(a, open_files)
                        ELSE TrackClose(a, r.open_files)
       ELSE UNCHANGED <<author_open, conforming, track>>

\* main_loop, Message::Notification from the client: didOpen or didClose.
\* The proxy panics when a preprocessed file it has to open cannot be read.
ClientNotification ==
    /\ ~crashed
    /\ \E not \in SyncNotifications, readable \in BOOLEAN :
         LET r == HandleClientNotification(source_mapping, open_files, not)
         IN  IF ReadsFile(not) /\ ~readable
             THEN /\ crashed' = TRUE
                  /\ sent' = <<>>
                  /\ UNCHANGED <<syncvars, last>>
             ELSE /\ \A p \in DOMAIN r.open_files : r.open_files[p] <= MaxOpenCount
                  /\ \A p \in PreFiles :
                        LET d == server_open[p] + NumSent(r.out, DidOpenMethod, p)
                                                - NumSent(r.out, DidCloseMethod, p)
                        IN  d <= MaxOutstanding /\ d >= 0 - MaxUnmatchedCloses
                  /\ open_files' = r.open_files
                  /\ sent' = SendMany2Server(r.out)
                  /\ crashed' = FALSE
                  /\ RecordNotification(not, r)
                  /\ UNCHANGED relayed
    /\ UNCHANGED <<mapvars, iovars, client_reqs, server_reqs, next_req_id, cells,
                   inflight, origin, fan>>

-----------------------------------------------------------------------------
(* Claims about document synchronisation.                                  *)

\* the last notification named a known author file and was processed
AuthorStep == last.kind = "notification" /\ last.registered /\ ~crashed

OpenAuthorsOf(file) ==
    {a \in AuthorFiles :
        /\ author_open[a]
        /\ SeqContains(MapFiles(source_mapping, "ToPreprocess", a), file)}

\* C5 as stated: after any sequence of didOpen and didClose notifications,
\* the refcount of every preprocessed file equals the number of distinct
\* author files currently open that map to it.
C5_RefcountIsOpenAuthors ==
    \A p \in PreFiles : Count(open_files, p) = Cardinality(OpenAuthorsOf(p))

\* C5, amended: the same after any sequence in which the client opens an
\* author file only while it is closed and closes it only while it is open.
C5_RefcountIsOpenAuthorsConforming ==
    conforming => \A p \in PreFiles : Count(open_files, p) = Cardinality(OpenAuthorsOf(p))

\* both author files are open, in a conforming run, and X.cc counts two
C5_Witness ==
    /\ conforming
    /\ \A a \in AuthorFiles : author_open[a]
    /\ Count(open_files, "X.cc") = 2 /\ Count(open_files, "Y.cc") = 1

\* C6: for each preprocessed file, the didOpen notifications sent to the
\* server minus the didClose notifications sent are at most one.
C6_AtMostOneOutstanding ==
    \A p \in PreFiles : server_open[p] <= 1

\* C7: a didOpen of author file A followed by a didClose of A, with matched
\* open/close pairs of other files in between, leaves the refcount map as it
\* was before the didOpen.
C7_OpenCloseRestores ==
    \A a \in AuthorFiles : track[a].checked /= "differs"

\* an author file was opened over a non-empty refcount map and closed again
\* after another file was opened and closed in between, and the map is back
C7_Witness ==
    \E a \in AuthorFiles :
       /\ track[a].checked = "restored"
       /\ track[a].pairs = 1
       /\ open_files /= EmptyMap

-----------------------------------------------------------------------------
(* Notifications translated one to many: publishDiagnostics from the       *)
(* server (handler/diagnostics.rs) and didChange from the client           *)
(* (handler/document_sync.rs).                                              *)

PublishDiagnosticsMethod == "textDocument/publishDiagnostics"
DidChangeMethod          == "textDocument/didChange"

\* lsp_types::Position
Pos(line, character) == [line |-> line, character |-> character]

\* a Diagnostic or a TextDocumentContentChangeEvent: `tag` stands for its
\* message or text, `ranged` for range.is_some()
Ranged(tag, start, end) == [tag |-> tag, ranged |-> TRUE, start |-> start, end |-> end]
Unranged(tag) == [tag |-> tag, ranged |-> FALSE, start |-> Pos(0, 0), end |-> Pos(0, 0)]

\* mutant: the vector of the key is replaced
PushEntryReplacing(result, key, x) == MapPut(result, key, <<x>>)

\* result.entry(key).or_insert(Vec::new()).push(x)
PushEntry(result, key, x) ==
    IF key \in DOMAIN result THEN [result EXCEPT ![key] = Append(@, x)]
    ELSE MapPut(result, key, <<x>>)

RECURSIVE PushEach(_, _, _)
\* `for file in files`: a clone of x is pushed for every file
PushEach(result, files, x) ==
    IF files = <<>> THEN result
    ELSE PushEach(PushEntry(result, Head(files), x), Tail(files), x)

\* what map_range leaves of the range of x: the lines are replaced, the
\* characters kept
Retarget(x, r) == [x EXCEPT !.start.line = r.start, !.end.line = r.end]

\* mutant: only the lines are compared
IsWholeFileByLines(d) == d.start.line = d.end.line

\* `diagnostic.range.start == diagnostic.range.end`
IsWholeFile(d) == d.start = d.end

RECURSIVE BucketDiagnostics(_, _, _, _, _)
\* the loop of handle_publish_diagnostics over params.diagnostics
BucketDiagnostics(sm, path, files, diags, result) ==
    IF diags = <<>> THEN result
    ELSE LET Bucketed(d, r) ==
                 IF IsWholeFile(d) THEN PushEach(result, files, d)
                 ELSE IF r.ok THEN PushEntry(result, r.path, Retarget(d, r))
                 ELSE result
         IN  BucketDiagnostics(sm, path, files, Tail(diags),
                 Bucketed(Head(diags),
                          MapRange(sm, "FromPreprocess", path,
                                   Head(diags).start.line, Head(diags).end.line)))

\* the early returns of the one-to-many notification handlers
PassedOn(sm, direction, not) ==
    \/ not.uri.scheme /= "file"
    \/ MapFiles(sm, direction, not.uri.path) = <<>>

\* handle_publish_diagnostics: the HashMap `result`
DiagnosticsByFile(sm, not) ==
    IF PassedOn(sm, "FromPreprocess", not) THEN EmptyMap
    ELSE BucketDiagnostics(sm, not.uri.path, MapFiles(sm, "FromPreprocess", not.uri.path),
                           not.items, EmptyMap)

\* result.into_iter().map(..).collect(), the keys iterated in `order`
Collect(not, result, order) ==
    [i \in 1..Len(order) |->
        [not EXCEPT !.uri = FileUri(order[i]), !.items = result[order[i]]]]

\* handle_publish_diagnostics
HandlePublishDiagnostics(sm, not, order) ==
    IF PassedOn(sm, "FromPreprocess", not) THEN <<not>>
    ELSE Collect(not, DiagnosticsByFile(sm, not), order)

RECURSIVE BucketChanges(_, _, _, _)
\* the loop of handle_did_change_text_document over params.content_changes
BucketChanges(sm, path, changes, result) ==
    IF changes = <<>> THEN result
    ELSE LET Bucketed(c, r) ==
                 IF c.ranged /\ r.ok THEN PushEntry(result, r.path, Retarget(c, r))
                 ELSE result
         IN  BucketChanges(sm, path, Tail(changes),
                 Bucketed(Head(changes),
                          MapRange(sm, "ToPreprocess", path,
                                   Head(changes).start.line, Head(changes).end.line)))

\* handle_did_change_text_document: the HashMap `result`
ChangesByFile(sm, not) ==
    IF PassedOn(sm, "ToPreprocess", not) THEN EmptyMap
    ELSE BucketChanges(sm, not.uri.path, not.items, EmptyMap)

\* handle_did_change_text_document
HandleDidChangeTextDocument(sm, not, order) ==
    IF PassedOn(sm, "ToPreprocess", not) THEN <<not>>
    ELSE Collect(not, ChangesByFile(sm, not), order)

\* NotificationDispatcher::_on with a handler that returned `out`: a
\* notification whose params do not deserialize is dropped
NotificationOnManyOut(out, not) == IF not.code /= "ok" THEN <<>> ELSE out

\* NotificationDispatcher::send_many to the client
SendMany2Client(out) == [i \in 1..Len(out) |-> [out[i] EXCEPT !.to = "client"]]

\* GlobalState::handle_server_notification: publishDiagnostics is
\* translated, everything else forwarded
HandleServerNotification(sm, not, order) ==
    IF not.method = PublishDiagnosticsMethod
    THEN NotificationOnManyOut(HandlePublishDiagnostics(sm, not, order), not)
    ELSE <<not>>

\* GlobalState::handle_client_notification for didChange
HandleClientChange(sm, not, order) ==
    NotificationOnManyOut(HandleDidChangeTextDocument(sm, not, order), not)

-----------------------------------------------------------------------------
(* SpecNotify: the server publishes diagnostics or the client edits a     *)
(* document.  The two handlers read the source mapping and write nothing,  *)
(* so the translation of one notification is followed per behaviour.       *)

\* most diagnostics of a publishDiagnostics
MaxDiagnostics == 3

\* most content changes of a didChange
MaxChanges == 2

\* diagnostics of a preprocessed file: on lines of a.cpp, on lines of b.cpp,
\* across the two, inside one line, outside every mapping, and two without
\* extent
Diagnostics ==
    { Ranged("d1", Pos(1, 0), Pos(2, 0)), Ranged("d2", Pos(4, 0), Pos(5, 0)),
      Ranged("d3", Pos(0, 0), Pos(0, 0)), Ranged("d4", Pos(2, 0), Pos(4, 0)),
      Ranged("d5", Pos(4, 0), Pos(4, 1)), Ranged("d6", Pos(5, 1), Pos(5, 1)),
      Ranged("d7", Pos(9, 0), Pos(10, 0)) }

DiagnosticUris ==
    {FileUri(f) : f \in PreFiles \cup {UnknownFile}} \cup {Uri("untitled", "n")}

ServerNotifications ==
    {[Notification(PublishDiagnosticsMethod, uri) EXCEPT !.items = ds] :
        uri \in DiagnosticUris, ds \in SeqsUpTo(Diagnostics, MaxDiagnostics)}
      \cup {[Notification(PublishDiagnosticsMethod, NoUri) EXCEPT !.code = "malformed"]}
      \cup {Notification(method, NoUri) : method \in {"window/logMessage", CustomMethod}}

\* content changes of an author file: on lines built into X.cc, into Y.cc,
\* across the two, outside every mapping, without extent, and one replacing
\* the whole document
Changes ==
    { Ranged("c1", Pos(0, 0), Pos(1, 0)), Ranged("c2", Pos(2, 0), Pos(3, 1)),
      Ranged("c3", Pos(1, 0), Pos(2, 0)), Ranged("c4", Pos(5, 0), Pos(6, 0)),
      Ranged("c5", Pos(0, 2), Pos(0, 2)), Unranged("c6") }

ChangeUris ==
    {FileUri(f) : f \in AuthorFiles \cup {UnknownFile}} \cup {Uri("untitled", "n")}

ChangeNotifications ==
    {[Notification(DidChangeMethod, uri) EXCEPT !.items = cs] :
        uri \in ChangeUris, cs \in SeqsUpTo(Changes, MaxChanges)}
      \cup {[Notification(DidChangeMethod, NoUri) EXCEPT !.code = "malformed"]}

InitNotify ==
    /\ overflow_checks = TRUE
    /\ auto_files = FixedFiles
    /\ dir_order = <<"X.cc", "Y.cc">>
    /\ map_pc = "ready"
    /\ source_mapping = FixedMapping
    /\ query = NoQuery
    /\ range_query = NoRangeQuery
    /\ parsed = NoParsed
    /\ DispIdle
    /\ SyncIdle
    /\ IoIdle

\* history of a translated notification
RecordRelayed(not, from) ==
    /\ relayed' = not
    /\ last' = [kind |-> "notification", from |-> from, id |-> 0, method |-> not.method,
                path |-> not.uri.path, registered |-> FALSE, before |-> 0,
                malformed |-> not.code /= "ok"]

\* main_loop, Message::Notification from the server
ServerNotification ==
    /\ ~crashed /\ relayed = NoRelayed
    /\ \E not \in ServerNotifications :
         \E order \in Orderings(DOMAIN DiagnosticsByFile(source_mapping, not)) :
            /\ sent' = SendMany2Client(HandleServerNotification(source_mapping, not, order))
            /\ RecordRelayed(not, "server")
    /\ UNCHANGED <<mapvars, iovars, client_reqs, server_reqs, next_req_id, cells, crashed,
                   inflight, origin, fan, open_files, author_open, conforming,
                   server_open, track>>

\* main_loop, Message::Notification from the client: didChange
ClientChange ==
    /\ ~crashed /\ relayed = NoRelayed
    /\ \E not \in ChangeNotifications :
         \E order \in Orderings(DOMAIN ChangesByFile(source_mapping, not)) :
            /\ sent' = SendMany2Server(HandleClientChange(source_mapping, not, order))
            /\ RecordRelayed(not, "client")
    /\ UNCHANGED <<mapvars, iovars, client_reqs, server_reqs, next_req_id, cells, crashed,
                   inflight, origin, fan, open_files, author_open, conforming,
                   server_open, track>>

NextNotify == ServerNotification \/ ClientChange

SpecNotify == InitNotify /\ [][NextNotify]_vars

\* the didChange notifications a client sends between didOpen and didClose:
\* one change to an author file, to a file the mapping does not know and to
\* a document that is no file
SyncChangeNotifications ==
    {[Notification(DidChangeMethod, uri) EXCEPT !.items = <<Ranged("c1", Pos(0, 0), Pos(1, 0))>>] :
        uri \in {FileUri("a.cpp"), FileUri(UnknownFile), Uri("untitled", "a.cpp")}}

\* main_loop, Message::Notification from the client: didChange, with
\* documents open
ClientChangeOpen ==
    /\ ~crashed
    /\ \E not \in SyncChangeNotifications :
         \E order \in Orderings(DOMAIN ChangesByFile(source_mapping, not)) :
            /\ sent' = SendMany2Server(HandleClientChange(source_mapping, not, order))
            /\ last' = [kind |-> "notification", from |-> "client", id |-> 0,
                        method |-> not.method, path |-> not.uri.path,
                        registered |-> FALSE, before |-> 0,
                        malformed |-> not.code /= "ok", given |-> not]
    /\ UNCHANGED <<mapvars, iovars, client_reqs, server_reqs, next_req_id, cells, crashed,
                   inflight, origin, fan, open_files, author_open, conforming,
                   server_open, track, relayed>>

NextSync == ClientNotification \/ ClientChangeOpen

SpecSync == InitSync /\ [][NextSync]_vars

-----------------------------------------------------------------------------
(* Claims about the translated notifications.                              *)

\* the elements of a sequence
Elements(s) == {s[i] : i \in 1..Len(s)}

\* the server published diagnostics of a known preprocessed file
PublishedKnown ==
    /\ relayed.method = PublishDiagnosticsMethod
    /\ relayed.code = "ok"
    /\ ~PassedOn(source_mapping, "FromPreprocess", relayed)

\* the author files the published preprocessed file was built from
BuiltFrom == Elements(MapFiles(source_mapping, "FromPreprocess", relayed.uri.path))

\* the notifications emitted for file f
EmittedFor(f) == {i \in 1..Len(sent) : sent[i].uri = FileUri(f)}

\* C15: for every PublishDiagnostics of a known preprocessed file, whatever
\* its list of diagnostics (the empty list included), exactly one
\* PublishDiagnostics goes to the client for each author file the
\* preprocessed file was built from.
C15_OnePerAuthorFile ==
    PublishedKnown =>
        \A f \in BuiltFrom :
            /\ Cardinality(EmittedFor(f)) = 1
            /\ \A i \in EmittedFor(f) :
                   sent[i].method = PublishDiagnosticsMethod /\ sent[i].to = "client"

\* the image of the line of position p of the published file
PositionImage(p) ==
    PriorityImage(source_mapping.from_preprocess, relayed.uri.path, p.line)

\* diagnostic d of the published file is due in the notification of file f
DueIn(d, f) ==
    IF d.start = d.end THEN f \in BuiltFrom
    ELSE PositionImage(d.start).path = f /\ PositionImage(d.end).path = f

\* diagnostic d as the notification of its file carries it
Carried(d) ==
    IF d.start = d.end THEN d
    ELSE [d EXCEPT !.start.line = PositionImage(d.start).line,
                   !.end.line = PositionImage(d.end).line]

\* the diagnostics due in the notification of f, translated, in their order
DueDiagnostics(f) ==
    LET due == SelectSeq(relayed.items, LAMBDA d : DueIn(d, f))
    IN  [i \in 1..Len(due) |-> Carried(due[i])]

\* C16: in a translated PublishDiagnostics a diagnostic with a non-empty
\* range appears, its range translated FromPreprocess, only in the
\* notification of the file its range maps to, and nowhere if its endpoints
\* map to different files; a diagnostic whose start equals its end appears in
\* the notification of every author file the preprocessed file was built
\* from.
C16_DiagnosticsBucketed ==
    PublishedKnown =>
        /\ \A i \in 1..Len(sent) : sent[i].items = DueDiagnostics(sent[i].uri.path)
        /\ \A f \in AuthorFiles \cup PreFiles :
               DueDiagnostics(f) /= <<>> => EmittedFor(f) /= {}

\* the fan-in scenario: a diagnostic on lines of a.cpp, one on lines of
\* b.cpp and one without extent, carried as two notifications; and one whose
\* endpoints lie in different files, carried by none
C16_Witness ==
    /\ PublishedKnown
    /\ Len(sent) = 2
    /\ \E i, j, k \in 1..Len(relayed.items) :
          /\ relayed.items[i].start /= relayed.items[i].end
          /\ DueIn(relayed.items[i], "a.cpp")
          /\ DueIn(relayed.items[j], "b.cpp") /\ ~DueIn(relayed.items[j], "a.cpp")
          /\ relayed.items[k].start = relayed.items[k].end
    /\ \E i \in 1..Len(sent) : sent[i].uri = FileUri("a.cpp") /\ Len(sent[i].items) = 2
    /\ \E i \in 1..Len(sent) : sent[i].uri = FileUri("b.cpp") /\ Len(sent[i].items) = 2

\* a diagnostic whose endpoints map to different files is in no notification
C16_WitnessDropped ==
    /\ PublishedKnown
    /\ \E i \in 1..Len(relayed.items) :
          /\ relayed.items[i].start /= relayed.items[i].end
          /\ PositionImage(relayed.items[i].start).path /= PositionImage(relayed.items[i].end).path
    /\ sent /= <<>>

\* the client changed a known author file
ChangedKnown ==
    /\ relayed.method = DidChangeMethod
    /\ relayed.code = "ok"
    /\ ~PassedOn(source_mapping, "ToPreprocess", relayed)

\* the image of the line of position p of the changed file
ChangeImage(p) ==
    PriorityImage(source_mapping.to_preprocess, relayed.uri.path, p.line)

\* the endpoints of change c map to different preprocessed files
Straddles(c) == c.ranged /\ ChangeImage(c.start).path /= ChangeImage(c.end).path

\* change c of the changed file is due in the didChange of file f
ChangeDueIn(c, f) ==
    /\ c.ranged
    /\ ChangeImage(c.start).path = f
    /\ ChangeImage(c.end).path = f

\* the changes due in the didChange of f, translated, in their order
DueChanges(f) ==
    LET due == SelectSeq(relayed.items, LAMBDA c : ChangeDueIn(c, f))
    IN  [i \in 1..Len(due) |->
            [due[i] EXCEPT !.start.line = ChangeImage(due[i].start).line,
                           !.end.line = ChangeImage(due[i].end).line]]

\* C17: of a didChange of a known author file, a content change whose
\* endpoints map to different preprocessed files is dropped, every other
\* ranged change is delivered, translated, in a didChange addressed to the
\* preprocessed file it maps to, and exactly one didChange is emitted per
\* destination file that received a change.
C17_ChangesBucketed ==
    ChangedKnown =>
        /\ \A i \in 1..Len(sent) :
              /\ sent[i].method = DidChangeMethod /\ sent[i].to = "server"
              /\ sent[i].items = DueChanges(sent[i].uri.path)
              /\ sent[i].items /= <<>>
              /\ \A c \in Elements(sent[i].items) :
                    \A k \in 1..Len(relayed.items) :
                        Straddles(relayed.items[k]) => c.tag /= relayed.items[k].tag
        /\ \A f \in AuthorFiles \cup PreFiles :
              DueChanges(f) /= <<>> => Cardinality(EmittedFor(f)) = 1

\* a didChange with a change across two preprocessed files and one inside
\* X.cc: one didChange goes out, with the second change only
C17_Witness ==
    /\ ChangedKnown
    /\ \E k \in 1..Len(relayed.items) : Straddles(relayed.items[k])
    /\ Len(sent) = 1
    /\ sent[1].uri = FileUri("X.cc")
    /\ Len(sent[1].items) = 1

\* two changes of one notification delivered in one didChange
C17_WitnessTogether ==
    /\ ChangedKnown
    /\ Len(sent) = 1
    /\ Len(sent[1].items) = 2

-----------------------------------------------------------------------------
(* Goto responses (handler/goto.rs).                                       *)

GotoDefinitionMethod == "textDocument/definition"

\* Option<Range>
NoneRange == [some |-> FALSE, start |-> 0, end |-> 0]
SomeRange(s, e) == [some |-> TRUE, start |-> s, end |-> e]

\* lsp_types::LocationLink, its ranges by their lines
LocationLink(origin_selection, target, range, sel) ==
    [origin |-> origin_selection, path |-> target, range |-> range, sel |-> sel]

\* mutant: a failed map_range leaves the image of the start line behind
MapLocationHalfWritten(sm, it) ==
    LET Mapped(r) ==
            IF r.ok THEN Item(r.path, r.start, r.end)
            ELSE [it EXCEPT !.start = Map(sm, "FromPreprocess", it.path, it.start, 0).line]
    IN  Mapped(MapRange(sm, "FromPreprocess", it.path, it.start, it.end))

\* map_location on a Location of a goto response: the location is replaced
\* when map_range succeeds
MapLocation(sm, it) ==
    LET Mapped(r) == IF r.ok THEN Item(r.path, r.start, r.end) ELSE it
    IN  Mapped(MapRange(sm, "FromPreprocess", it.path, it.start, it.end))

\* GotoDefinitionResponse::Array: the locations map_location succeeds on
RetainLocations(sm, items) ==
    LET Ok(it) == MapRange(sm, "FromPreprocess", it.path, it.start, it.end).ok
        kept == SelectSeq(items, Ok)
    IN  [i \in 1..Len(kept) |-> MapLocation(sm, kept[i])]

RECURSIVE RetainLinks(_, _, _)
\* GotoDefinitionResponse::Link: the closure of retain_mut.  o, t and s are
\* the results of map_range on the origin selection range, the target range
\* and the target selection range; a mismatch of the origin is logged only
RetainLinks(sm, st, links) ==
    IF links = <<>> THEN <<>>
    ELSE LET Kept(l, o, t, s, rest) ==
                 IF ~t.ok \/ ~s.ok \/ t.path /= s.path THEN rest
                 ELSE << [l EXCEPT !.origin = IF l.origin.some /\ o.ok
                                              THEN SomeRange(o.start, o.end) ELSE @,
                                   !.path = s.path,
                                   !.range = Rng(t.start, t.end),
                                   !.sel = Rng(s.start, s.end)] >> \o rest
         IN  Kept(Head(links),
                  MapRange(sm, "FromPreprocess", st.mapped_path,
                           Head(links).origin.start, Head(links).origin.end),
                  MapRange(sm, "FromPreprocess", Head(links).path,
                           Head(links).range.start, Head(links).range.end),
                  MapRange(sm, "FromPreprocess", Head(links).path,
                           Head(links).sel.start, Head(links).sel.end),
                  RetainLinks(sm, st, Tail(links)))

\* handle_res_goto: the items of the result
HandleResGoto(sm, ctx, res) ==
    IF ctx.value.kind /= "loc" THEN res.items
    ELSE CASE res.fmt = "Scalar" -> [i \in 1..Len(res.items) |-> MapLocation(sm, res.items[i])]
           [] res.fmt = "Array"  -> RetainLocations(sm, res.items)
           [] res.fmt = "Link"   -> RetainLinks(sm, ctx.value, res.items)
           [] OTHER              -> res.items

\* ResponseDispatcher::on with handle_res_goto
ResponseOnGoto(D, direction, sm, ctx, res) ==
    IF res.code \in {"error", "InvalidParams"} THEN SendRes(D, direction, ctx, res)
    ELSE IF CastRes(res)
         THEN SendRes(D, direction, ctx,
                      BuildRes(res.id, res.fmt, HandleResGoto(sm, ctx, res)))
    ELSE D

\* GlobalState::handle_server_response for the response to a goto request
HandleGotoResponse(D, sm, res) ==
    IF res.id \notin DOMAIN D.client_reqs THEN D
    ELSE ResponseOnGoto([D EXCEPT !.client_reqs = Unregister(@, res.id)],
                        "FromServer", sm, D.client_reqs[res.id], res)

-----------------------------------------------------------------------------
(* SpecGoto: the client asks for a definition, the server answers.        *)

\* longest list of links or locations in a goto response
MaxLinks == 2

GotoUris == {FileUri(f) : f \in AuthorFiles \cup {UnknownFile}} \cup {Uri("untitled", "n")}

GotoRequests ==
    {Request(id, GotoDefinitionMethod, TRUE, u, r) :
        id \in ClientIds, u \in GotoUris, r \in ReqPositions}
      \cup {Request(id, GotoDefinitionMethod, FALSE, NoUri, NoRange) : id \in ClientIds}

\* links the server answers with: into a.cpp from a.cpp, into a.cpp from
\* b.cpp, with a target range or target selection range across two author
\* files, with the two in different author files, with an origin across two
\* author files, and into a file that is not preprocessed
Links ==
    { LocationLink(SomeRange(1, 1), "X.cc", Rng(1, 2), Rng(1, 1)),
      LocationLink(SomeRange(4, 4), "Y.cc", Rng(7, 8), Rng(7, 7)),
      LocationLink(NoneRange, "X.cc", Rng(2, 4), Rng(2, 2)),
      LocationLink(NoneRange, "X.cc", Rng(4, 5), Rng(2, 4)),
      LocationLink(NoneRange, "X.cc", Rng(1, 2), Rng(4, 4)),
      LocationLink(SomeRange(2, 4), "X.cc", Rng(4, 5), Rng(4, 4)),
      LocationLink(NoneRange, UnknownFile, Rng(0, 1), Rng(0, 0)) }

Locations == {Item("X.cc", 1, 2), Item("X.cc", 2, 4), Item(UnknownFile, 0, 1)}

GotoResponses(id) ==
    {Response(id, code, "", <<>>) : code \in {"error", "null", "malformed"}}
      \cup {Response(id, "ok", "Link", ls) : ls \in SeqsUpTo(Links, MaxLinks)}
      \cup {Response(id, "ok", "Array", ls) : ls \in SeqsUpTo(Locations, MaxLinks)}
      \cup {Response(id, "ok", "Scalar", <<l>>) : l \in Locations}

\* main_loop, Message::Request from the client: a goto request
GotoRequest ==
    /\ ~crashed /\ client_reqs = EmptyMap
    /\ \E req \in GotoRequests :
         \E D \in {RequestOn(Dispatcher, "ToServer", source_mapping, req)} :
            /\ D.next_req_id <= MaxRequests
            /\ Commit(D)
            /\ last' = [kind |-> "request", from |-> "client", id |-> req.id,
                        method |-> req.method, path |-> req.uri.path,
                        registered |-> FALSE, before |-> 0,
                        malformed |-> req.code /= "ok"]
            /\ relayed' = NoRelayed
    /\ UNCHANGED <<mapvars, iovars, inflight, origin, fan, open_files, author_open, conforming,
                   server_open, track>>

\* main_loop, Message::Response from the server: the answer to a goto
\* request.  History: `relayed` is the response as it arrived, with the
\* preprocessed file its request went out for as its uri.
GotoResponse ==
    /\ ~crashed
    /\ \E id \in DOMAIN client_reqs :
         \E res \in GotoResponses(id) :
            /\ Commit(HandleGotoResponse(Dispatcher, source_mapping, res))
            /\ last' = [kind |-> "response", from |-> "server", id |-> res.id,
                        method |-> client_reqs[id].method,
                        path |-> client_reqs[id].value.source_path,
                        registered |-> TRUE, before |-> Cardinality(DOMAIN client_reqs),
                        malformed |-> FALSE]
            /\ relayed' = [res EXCEPT !.uri = FileUri(client_reqs[id].value.mapped_path)]
    /\ UNCHANGED <<mapvars, iovars, inflight, origin, fan, open_files, author_open, conforming,
                   server_open, track>>

NextGoto == GotoRequest \/ GotoResponse

SpecGoto == InitNotify /\ [][NextGoto]_vars

-----------------------------------------------------------------------------
(* Claims about goto responses.                                            *)

\* the server answered a goto request of a file with a list of links
LinksAnswered ==
    /\ last.kind = "response"
    /\ last.method = GotoDefinitionMethod
    /\ relayed.code = "ok" /\ relayed.fmt = "Link"
    /\ last.path /= ""

\* the author file both lines s and e of preprocessed file `path` lie in; ""
\* when they lie in different files
AuthorFileOf(path, s, e) ==
    IF PriorityImage(source_mapping.from_preprocess, path, s).path
         = PriorityImage(source_mapping.from_preprocess, path, e).path
    THEN PriorityImage(source_mapping.from_preprocess, path, s).path
    ELSE ""

\* link l is to be dropped under the claim
ToBeDropped(l, mapped_file) ==
    \/ AuthorFileOf(l.path, l.range.start, l.range.end) = ""
    \/ AuthorFileOf(l.path, l.sel.start, l.sel.end) = ""
    \/ AuthorFileOf(l.path, l.range.start, l.range.end)
         /= AuthorFileOf(l.path, l.sel.start, l.sel.end)
    \/ /\ l.origin.some
       /\ AuthorFileOf(mapped_file, l.origin.start, l.origin.end) /= last.path

\* the links of the answer that are not to be dropped
NotDropped == {i \in 1..Len(relayed.items) : ~ToBeDropped(relayed.items[i], relayed.uri.path)}

\* C18: in a link-style goto response a LocationLink is dropped when its
\* target_range or target_selection_range cannot be mapped, when the two map
\* to different files, or when its origin selection range maps to a file
\* other than the author file of the request; the response stays a result,
\* with an empty list when every link is dropped.
C18_LinksDropped ==
    LinksAnswered =>
        /\ Len(sent) = 1
        /\ sent[1].kind = "response" /\ sent[1].code = "ok" /\ sent[1].to = "client"
        /\ sent[1].fmt = "Link"
        /\ Len(sent[1].items) <= Cardinality(NotDropped)

\* as C18, without the case of the origin selection range
C18_TargetsChecked ==
    LinksAnswered =>
        /\ Len(sent) = 1
        /\ sent[1].kind = "response" /\ sent[1].code = "ok" /\ sent[1].to = "client"
        /\ sent[1].fmt = "Link"
        /\ Len(sent[1].items)
             <= Cardinality({i \in 1..Len(relayed.items) :
                    ~ToBeDropped([relayed.items[i] EXCEPT !.origin = NoneRange],
                                 relayed.uri.path)})

\* every link of an answer is dropped and an empty list is returned
C18_AllDropped ==
    /\ LinksAnswered
    /\ relayed.items /= <<>>
    /\ sent[1].code = "ok" /\ sent[1].items = <<>>

-----------------------------------------------------------------------------
(* SpecIds: requests of both peers and their answers, for as long as the   *)
(* id counter takes to run through its range.                              *)

\* most requests in flight at a time
MaxInFlight == 1

IdClientRequests ==
    {Request(id, method, TRUE, FileUri("a.cpp"), Rng(0, 0)) :
        id \in ClientIds, method \in {CustomMethod, "workspace/symbol", HighlightMethod,
                                       DocSymbolMethod}}

\* the answers that carry no items: an error or an empty result
IdResponses(reqs, id) ==
    {r \in ResponsesTo(reqs, id) : r.items = <<>> /\ r.code \in {"ok", "error"}}

InitIds ==
    /\ overflow_checks \in BOOLEAN
    /\ auto_files = FixedFiles
    /\ dir_order = <<"X.cc", "Y.cc">>
    /\ map_pc = "ready"
    /\ source_mapping = FixedMapping
    /\ query = NoQuery
    /\ range_query = NoRangeQuery
    /\ parsed = NoParsed
    /\ DispIdle
    /\ SyncIdle
    /\ IoIdle

\* the id of the last request among msgs, `before` when there is none
LastRequestId(msgs, before) ==
    IF OfKind(msgs, "request") = {} THEN before
    ELSE msgs[CHOOSE i \in OfKind(msgs, "request") :
                 \A j \in OfKind(msgs, "request") : j <= i].id

\* the state a handler leaves and the history of a request
CommitRequest(D, req, from) ==
    /\ Commit(D)
    /\ last_req_id' = LastRequestId(D.sent, last_req_id)
    /\ last' = [kind |-> "request", from |-> from, id |-> req.id, method |-> req.method,
                path |-> req.uri.path, registered |-> FALSE, before |-> 0,
                malformed |-> FALSE]

\* the state a handler leaves and the history of a response
CommitResponse(D, res, from, reqs) ==
    /\ Commit(D)
    /\ last' = [kind |-> "response", from |-> from, id |-> res.id,
                method |-> reqs[res.id].method, path |-> "", registered |-> TRUE,
                before |-> Cardinality(DOMAIN reqs), malformed |-> FALSE]

InFlight == Cardinality(DOMAIN client_reqs) + Cardinality(DOMAIN server_reqs)

\* main_loop, Message::Request from the client
IdClientRequest ==
    /\ ~crashed /\ InFlight < MaxInFlight
    /\ \E req \in IdClientRequests :
         \E D \in {HandleClientRequest(Dispatcher, source_mapping, req, <<>>)} :
            CommitRequest(D, req, "client")
    /\ UNCHANGED <<mapvars, syncvars, inflight, origin, fan, client_receiver,
                   from_lang_server, loop_pc, reader, logger, emitted>>

\* main_loop, Message::Request from the server
IdServerRequest ==
    /\ ~crashed /\ InFlight < MaxInFlight
    /\ \E req \in ServerRequests :
         \E D \in {HandleServerRequest(Dispatcher, req)} :
            CommitRequest(D, req, "server")
    /\ UNCHANGED <<mapvars, syncvars, inflight, origin, fan, client_receiver,
                   from_lang_server, loop_pc, reader, logger, emitted>>

\* main_loop, Message::Response from the server
IdServerResponse ==
    /\ ~crashed
    /\ \E id \in DOMAIN client_reqs :
         \E res \in IdResponses(client_reqs, id) :
            CommitResponse(HandleServerResponse(Dispatcher, source_mapping, res),
                           res, "server", client_reqs)
    /\ UNCHANGED <<mapvars, syncvars, inflight, origin, fan, iovars>>

\* main_loop, Message::Response from the client
IdClientResponse ==
    /\ ~crashed
    /\ \E id \in DOMAIN server_reqs :
         \E res \in IdResponses(server_reqs, id) :
            CommitResponse(HandleClientResponse(Dispatcher, res), res, "client", server_reqs)
    /\ UNCHANGED <<mapvars, syncvars, inflight, origin, fan, iovars>>

NextIds == IdClientRequest \/ IdServerRequest \/ IdServerResponse \/ IdClientResponse

SpecIds == InitIds /\ [][NextIds]_vars

\* the requests among msgs, by their position
RequestsIn(msgs) == OfKind(msgs, "request")

\* C24: every request the proxy sends, in either direction, carries an id
\* freshly drawn from one monotonically increasing counter: the ids of the
\* emitted requests are strictly increasing in the order of emission and no
\* two requests in flight share an id.
C24_FreshIds ==
    [][last'.kind = "request" =>
          \A i \in RequestsIn(sent') :
             /\ sent'[i].id > last_req_id
             /\ \A j \in RequestsIn(sent') : j < i => sent'[j].id < sent'[i].id
             /\ sent'[i].id \notin (DOMAIN client_reqs) \cup (DOMAIN server_reqs)]_vars

\* as C24, for as long as the counter stays below the largest i32
C24_FreshIdsBelowI32 ==
    [][(last'.kind = "request" /\ next_req_id' < U32Modulus \div 2) =>
          \A i \in RequestsIn(sent') :
             /\ sent'[i].id > last_req_id
             /\ \A j \in RequestsIn(sent') : j < i => sent'[j].id < sent'[i].id
             /\ sent'[i].id \notin (DOMAIN client_reqs) \cup (DOMAIN server_reqs)]_vars

-----------------------------------------------------------------------------
(* SpecLoop: main_loop between a client and a server that write to their   *)
(* channels at any time.                                                   *)

\* most messages a peer sends in a run
MaxMessages == 2

ShutdownMethod == "shutdown"
ExitMethod     == "exit"
CancelMethod   == "$/cancelRequest"

\* a notification that names a request: lsp_types::CancelParams { id }
Cancel(id) == [Notification(CancelMethod, NoUri) EXCEPT !.id = id]

\* what the client may write next
LoopClientMessages ==
    {Request(id, method, TRUE, FileUri("a.cpp"), Rng(0, 0)) :
        id \in ClientIds, method \in {"workspace/symbol", DocSymbolMethod, ShutdownMethod}}
      \cup {Cancel(id) : id \in ClientIds} \cup {Notification(ExitMethod, NoUri)}
      \cup UNION {IdResponses(server_reqs, id) : id \in DOMAIN server_reqs}

\* what the server may write next
LoopServerMessages ==
    {Request(id, "window/showMessageRequest", TRUE, NoUri, NoRange) : id \in ServerIds}
      \cup {Notification("window/logMessage", NoUri)}
      \cup UNION {IdResponses(client_reqs, id) : id \in DOMAIN client_reqs}

\* Sender::send on a channel
Put(ch, m) == [queue |-> Append(ch.queue, [seq |-> ch.put, msg |-> m]), put |-> ch.put + 1]

\* mutant: the receiver hands out the newest message
RecvNewest(ch) ==
    [got |-> ch.queue[Len(ch.queue)],
     rest |-> [ch EXCEPT !.queue = SubSeq(@, 1, Len(@) - 1)]]

\* recv(..) -> r of select!: the oldest message of the channel
Recv(ch) == [got |-> Head(ch.queue), rest |-> [ch EXCEPT !.queue = Tail(@)]]

\* mutant: the id is replaced by the id the named request went out under
NotificationForwardTranslated(D, direction, not) ==
    LET out == {k \in DOMAIN Reqs(D, direction) : Reqs(D, direction)[k].req_id = not.id}
    IN  IF not.method = CancelMethod /\ out /= {}
        THEN Send(D, direction, [not EXCEPT !.id = CHOOSE k \in out : TRUE])
        ELSE Send(D, direction, not)

\* NotificationDispatcher::forward
NotificationForward(D, direction, not) == Send(D, direction, not)

\* the messages of `out`, as emitted because of message `seq` of `peer`
Caused(peer, seq, out) ==
    [i \in 1..Len(out) |-> [peer |-> peer, seq |-> seq, msg |-> out[i]]]

\* the state a handler of main_loop leaves
CommitLoop(D, peer, seq) ==
    /\ Commit(D)
    /\ emitted' = emitted \o Caused(peer, seq, D.sent)

\* the client writes a message
ClientSends ==
    /\ client_receiver.put < MaxMessages
    /\ \E m \in LoopClientMessages : client_receiver' = Put(client_receiver, m)
    /\ UNCHANGED <<mapvars, dispvars, syncvars, last, from_lang_server, loop_pc, reader,
                   logger, emitted, last_req_id>>

\* the server writes a message and the reader thread passes it on
ServerSends ==
    /\ from_lang_server.put < MaxMessages
    /\ \E m \in LoopServerMessages : from_lang_server' = Put(from_lang_server, m)
    /\ UNCHANGED <<mapvars, dispvars, syncvars, last, client_receiver, loop_pc, reader,
                   logger, emitted, last_req_id>>

\* main_loop, recv(state.client.receiver): one message of the client.
\* Connection::handle_shutdown answers a shutdown request itself and then
\* waits for the next message of the client.
LoopClient ==
    /\ loop_pc = "running" /\ ~crashed /\ client_receiver.queue /= <<>>
    /\ \E r \in {Recv(client_receiver)} :
         /\ client_receiver' = r.rest
         /\ IF r.got.msg.kind = "request" /\ r.got.msg.method = ShutdownMethod
            THEN /\ loop_pc' = "shutdown"
                 /\ CommitLoop(Send(Dispatcher, "FromServer",
                                    Response(r.got.msg.id, "ok", "", <<>>)),
                               "client", r.got.seq)
            ELSE /\ loop_pc' = loop_pc
                 /\ CommitLoop(CASE r.got.msg.kind = "request" ->
                                     HandleClientRequest(Dispatcher, source_mapping,
                                                         r.got.msg, <<>>)
                                  [] r.got.msg.kind = "response" ->
                                     HandleClientResponse(Dispatcher, r.got.msg)
                                  [] OTHER ->
                                     NotificationForward(Dispatcher, "ToServer", r.got.msg),
                               "client", r.got.seq)
    /\ UNCHANGED <<mapvars, syncvars, inflight, origin, fan, last, from_lang_server,
                   reader, logger, last_req_id>>

\* Connection::handle_shutdown, recv_timeout: the next message of the
\* client is consumed; main_loop returns Ok after an exit notification and
\* the error otherwise
LoopShutdownRecv ==
    /\ loop_pc = "shutdown" /\ client_receiver.queue /= <<>>
    /\ \E r \in {Recv(client_receiver)} :
         /\ client_receiver' = r.rest
         /\ loop_pc' = IF r.got.msg.kind = "notification" /\ r.got.msg.method = ExitMethod
                       THEN "returned" ELSE "failed"
    /\ UNCHANGED <<mapvars, dispvars, syncvars, last, from_lang_server, reader, logger,
                   emitted, last_req_id>>

\* Connection::handle_shutdown, recv_timeout: nothing came in time
LoopShutdownTimeout ==
    /\ loop_pc = "shutdown" /\ client_receiver.queue = <<>>
    /\ loop_pc' = "failed"
    /\ UNCHANGED <<mapvars, dispvars, syncvars, last, client_receiver, from_lang_server,
                   reader, logger, emitted, last_req_id>>

\* main_loop, recv(state.server.from_lang_server.receiver()): one message
\* of the server
LoopServer ==
    /\ loop_pc = "running" /\ ~crashed /\ from_lang_server.queue /= <<>>
    /\ \E r \in {Recv(from_lang_server)} :
         /\ from_lang_server' = r.rest
         /\ CommitLoop(CASE r.got.msg.kind = "request" ->
                             HandleServerRequest(Dispatcher, r.got.msg)
                          [] r.got.msg.kind = "response" ->
                             HandleServerResponse(Dispatcher, source_mapping, r.got.msg)
                          [] OTHER ->
                             NotificationForward(Dispatcher, "FromServer", r.got.msg),
                       "server", r.got.seq)
    /\ UNCHANGED <<mapvars, syncvars, inflight, origin, fan, last, client_receiver,
                   loop_pc, reader, logger, last_req_id>>

NextLoop ==
    \/ ClientSends \/ ServerSends \/ LoopClient \/ LoopServer
    \/ LoopShutdownRecv \/ LoopShutdownTimeout

SpecLoop == InitNotify /\ [][NextLoop]_vars

\* C22: messages of one peer are processed one at a time in the order
\* received: whatever the proxy emits because of an earlier message of a
\* peer goes out before anything it emits because of a later message of
\* that peer.
C22_PeerOrder ==
    \A i, j \in DOMAIN emitted :
       (i < j /\ emitted[i].peer = emitted[j].peer) => emitted[i].seq <= emitted[j].seq

\* two messages of the client were passed on with a message of the server
\* in between
C22_Witness ==
    \E i, j, k \in DOMAIN emitted :
       /\ i < j /\ j < k
       /\ emitted[i].peer = "client" /\ emitted[j].peer = "server"
       /\ emitted[k].peer = "client" /\ emitted[i].seq < emitted[k].seq

\* C23: when the client sends a shutdown request, the coordinator forwards
\* it to the language server before the main loop returns.
C23_ShutdownForwarded ==
    loop_pc \in {"returned", "failed"} =>
       \E i \in DOMAIN emitted :
          /\ emitted[i].msg.to = "server"
          /\ emitted[i].msg.kind = "request"
          /\ emitted[i].msg.method = ShutdownMethod

\* what the code does on shutdown: the client is answered and the main loop
\* returns without a shutdown request to the server
C23_ShutdownAnsweredLocally ==
    loop_pc /= "running" =>
       /\ \E i \in DOMAIN emitted :
             emitted[i].msg.to = "client" /\ emitted[i].msg.kind = "response"
       /\ \A i \in DOMAIN emitted : emitted[i].msg.method /= ShutdownMethod

C23_Returned == loop_pc = "returned"

\* the step of main_loop that handles a cancel notification of the client
CancelHandled ==
    /\ loop_pc = "running" /\ client_receiver.queue /= <<>>
    /\ Head(client_receiver.queue).msg.method = CancelMethod
    /\ client_receiver'.queue = Tail(client_receiver.queue)
    /\ client_receiver'.put = client_receiver.put

\* C29: a $/cancelRequest notification of the client goes to the server
\* unchanged: the id in it stays the id the client gave its request, not
\* the id the proxy sent that request under, and neither registry changes.
C29_CancelUntranslated ==
    [][CancelHandled =>
          /\ sent' = << [Head(client_receiver.queue).msg EXCEPT !.to = "server"] >>
          /\ sent'[1].id = Head(client_receiver.queue).msg.id
          /\ client_reqs' = client_reqs
          /\ server_reqs' = server_reqs]_vars

\* a cancel went out for a request that is in flight under another id
C29_Witness ==
    /\ Len(sent) = 1 /\ sent[1].method = CancelMethod /\ sent[1].to = "server"
    /\ \E k \in DOMAIN client_reqs : client_reqs[k].req_id = sent[1].id /\ k /= sent[1].id

-----------------------------------------------------------------------------
(* SpecReader: reader_loop on the stdout of a server that writes frames    *)
(* and may close the pipe, while the coordinator may drop the transport.   *)

\* most frames the server writes in a run
MaxFrames == 3

\* a frame: a notification "exit", any other message, or bytes that do not
\* parse
Frames == {ExitMethod, "window/logMessage", "bad"}

\* the server writes a frame to its stdout
ServerWrites ==
    /\ ~reader.eof /\ reader.written < MaxFrames
    /\ \E f \in Frames :
         reader' = [reader EXCEPT !.frames = Append(@, f), !.written = @ + 1]
    /\ UNCHANGED <<mapvars, dispvars, syncvars, last, client_receiver, from_lang_server,
                   loop_pc, logger, emitted, last_req_id>>

\* the server closes its stdout
ServerCloses ==
    /\ ~reader.eof
    /\ reader' = [reader EXCEPT !.eof = TRUE]
    /\ UNCHANGED <<mapvars, dispvars, syncvars, last, client_receiver, from_lang_server,
                   loop_pc, logger, emitted, last_req_id>>

\* the coordinator drops the worker: the reader's receiver is disconnected
\* and its sender has no receiver
WorkerDropped ==
    /\ reader.connected
    /\ reader' = [reader EXCEPT !.connected = FALSE]
    /\ UNCHANGED <<mapvars, dispvars, syncvars, last, client_receiver, from_lang_server,
                   loop_pc, logger, emitted, last_req_id>>

\* reader_loop, head of `loop`: return when the receiver is disconnected
ReaderChecked(r) == [r EXCEPT !.pc = IF r.connected THEN "read" ELSE "done"]

\* reader_loop, one round of `while let Some(msg) = Message::read(..)?`:
\* a frame that does not parse ends the loop with the error, a message is
\* sent on and after an "exit" notification `break` leaves the while; at the
\* end of the stream the while is over
ReaderRead(r) ==
    IF r.frames = <<>> THEN [r EXCEPT !.pc = "check"]
    ELSE IF Head(r.frames) = "bad" \/ ~r.connected
         THEN [r EXCEPT !.frames = Tail(@), !.pc = "failed",
                        !.read_after_exit = @ \/ r.exit_published]
         ELSE [r EXCEPT !.frames = Tail(@),
                        !.published = Append(@, Head(r.frames)),
                        !.pc = IF Head(r.frames) = ExitMethod THEN "check" ELSE "read",
                        !.exit_published = @ \/ Head(r.frames) = ExitMethod,
                        !.read_after_exit = @ \/ r.exit_published]

ReaderCheck ==
    /\ reader.pc = "check"
    /\ reader' = ReaderChecked(reader)
    /\ UNCHANGED <<mapvars, dispvars, syncvars, last, client_receiver, from_lang_server,
                   loop_pc, logger, emitted, last_req_id>>

\* Message::read blocks while the pipe is open and empty
ReaderReads ==
    /\ reader.pc = "read"
    /\ reader.frames /= <<>> \/ reader.eof
    /\ reader' = ReaderRead(reader)
    /\ UNCHANGED <<mapvars, dispvars, syncvars, last, client_receiver, from_lang_server,
                   loop_pc, logger, emitted, last_req_id>>

NextReader == ServerWrites \/ ServerCloses \/ WorkerDropped \/ ReaderCheck \/ ReaderReads

SpecReader == InitNotify /\ [][NextReader]_vars

\* C28: the reader terminates after publishing a notification "exit": once
\* such a frame has been sent on the inbound channel, the reader reads no
\* further frame.
C28_ReaderStopsAtExit == reader.exit_published => ~reader.read_after_exit

\* the reader returns only with an error or once the coordinator dropped
\* the worker
C28_ReaderStopsWhenDropped ==
    /\ reader.pc = "done" => ~reader.connected
    /\ reader.pc = "failed" => (~reader.connected \/ reader.written > Len(reader.published))

\* the reader returned after it had published "exit"
C28_StoppedAfterExit == reader.pc = "done" /\ reader.exit_published

-----------------------------------------------------------------------------
(* SpecLogger: the coordinator logs messages with Logger::send while the   *)
(* consumer thread takes entries from the queue whenever it runs.          *)

\* bounded(1024), scaled
LogCapacity == 2

\* most messages the coordinator logs in a run
MaxLogged == 6

\* Sender::try_send: the channel after it and whether it was full
TrySend(queue, log_msg) ==
    IF Len(queue) < LogCapacity THEN [queue |-> Append(queue, log_msg), full |-> FALSE]
    ELSE [queue |-> queue, full |-> TRUE]

\* mutant: nothing is taken from the full queue
TryRecvNothing(l) == [l EXCEPT !.pc = "retry"]

\* Logger::send on Full: self.receiver.try_recv() takes the oldest entry
\* when there is one
TryRecv(l) ==
    IF l.queue = <<>> THEN [l EXCEPT !.pc = "retry"]
    ELSE [l EXCEPT !.pc = "retry", !.queue = Tail(@),
                   !.discarded = Append(@, Head(l.queue))]

\* Logger::send returns
Returned(l, sent_to) ==
    [l EXCEPT !.pc = "idle", !.queue = sent_to.queue, !.next_msg = @ + 1,
              !.result = IF sent_to.full THEN "err" ELSE "ok"]

\* Logger::send, self.sender.try_send(log_msg)
LoggerTrySend ==
    /\ logger.pc = "idle" /\ logger.next_msg <= MaxLogged
    /\ \E r \in {TrySend(logger.queue, logger.next_msg)} :
         logger' = IF r.full THEN [logger EXCEPT !.pc = "full", !.log_msg = logger.next_msg]
                   ELSE Returned([logger EXCEPT !.log_msg = logger.next_msg], r)
    /\ UNCHANGED <<mapvars, dispvars, syncvars, last, client_receiver, from_lang_server,
                   loop_pc, reader, emitted, last_req_id>>

\* Logger::send, Err(TrySendError::Full(log_msg)): try_recv
LoggerTryRecv ==
    /\ logger.pc = "full"
    /\ logger' = TryRecv(logger)
    /\ UNCHANGED <<mapvars, dispvars, syncvars, last, client_receiver, from_lang_server,
                   loop_pc, reader, emitted, last_req_id>>

\* Logger::send, the second try_send, whose result is returned
LoggerRetry ==
    /\ logger.pc = "retry"
    /\ logger' = Returned(logger, TrySend(logger.queue, logger.log_msg))
    /\ UNCHANGED <<mapvars, dispvars, syncvars, last, client_receiver, from_lang_server,
                   loop_pc, reader, emitted, last_req_id>>

\* log_socket_handler, recv(receiver): the consumer takes the oldest entry
ConsumerRecv ==
    /\ logger.queue /= <<>>
    /\ logger' = [logger EXCEPT !.queue = Tail(@),
                                !.delivered = Append(@, Head(logger.queue))]
    /\ UNCHANGED <<mapvars, dispvars, syncvars, last, client_receiver, from_lang_server,
                   loop_pc, reader, emitted, last_req_id>>

\* the steps of Logger::send
LoggerSend == LoggerTrySend \/ LoggerTryRecv \/ LoggerRetry

NextLogger == LoggerTrySend \/ LoggerTryRecv \/ LoggerRetry \/ ConsumerRecv

SpecLogger == InitNotify /\ [][NextLogger]_vars

\* the elements of a sequence
Range(q) == {q[i] : i \in DOMAIN q}

\* C30: Logger::send never blocks the coordinator and never returns an
\* error, whatever the consumer does: a send under way can always take its
\* next step, every send returns Ok with its entry queued (or already taken
\* by the consumer), and what a send discards to make room is older than
\* everything left in the queue.
C30_SendNeverFails ==
    /\ logger.result /= "err"
    /\ logger.pc /= "idle" => ENABLED LoggerSend
    /\ (logger.pc = "idle" /\ logger.next_msg > 1) =>
          (logger.next_msg - 1) \in Range(logger.queue) \cup Range(logger.delivered)
    /\ \A d \in Range(logger.discarded) : \A e \in Range(logger.queue) : d < e
    /\ Len(logger.queue) <= LogCapacity

\* a send found the queue full, discarded the oldest entry and returned Ok
\* although the consumer never took an entry
C30_Witness ==
    /\ logger.pc = "idle" /\ logger.result = "ok"
    /\ logger.delivered = <<>>
    /\ logger.discarded = <<1>>
    /\ Len(logger.queue) = LogCapacity

-----------------------------------------------------------------------------
(* SpecParse: extract_line_mappings_for_file on a file X.cc with any       *)
(* sequence of lines.                                                      *)

\* longest file handed to the parser, in lines
MaxLines == 5

\* the lines a file is made of: content, `#line N "a.cpp"` and the markers
ParsedLines ==
    {Text, IfaceMark, ImplMark, ExtMark, EndifMark("X.cc")}
      \cup {LineRef(n, "a.cpp") : n \in LineNos}

InitParse ==
    /\ overflow_checks \in BOOLEAN
    /\ auto_files = FixedFiles
    /\ dir_order = <<"X.cc", "Y.cc">>
    /\ map_pc = "ready"
    /\ source_mapping = FixedMapping
    /\ query = NoQuery
    /\ range_query = NoRangeQuery
    /\ parsed \in {[NoParsed EXCEPT !.lines = ls] : ls \in SeqsUpTo(ParsedLines, MaxLines)}
    /\ DispIdle
    /\ SyncIdle
    /\ IoIdle

\* extract_line_mappings_for_file("X.cc", ..): the parser's mappings and
\* whether it or the push of the inverse mappings panicked
Parse ==
    /\ ~parsed.done
    /\ \E ex \in {ExtractLineMappings(overflow_checks, "X.cc", parsed.lines)} :
         parsed' = [parsed EXCEPT
                      !.done = TRUE,
                      !.mappings = ex.mappings,
                      !.panic = ex.panic,
                      !.inverse_panic =
                          ~ex.panic /\ PushMirrors(overflow_checks, "X.cc", ex.mappings,
                                                   [to |-> EmptyMap, panic |-> FALSE]).panic]
    /\ UNCHANGED <<overflow_checks, auto_files, dir_order, map_pc, source_mapping, query,
                   range_query, dispvars, syncvars, last, iovars>>

NextParse == Parse

SpecParse == InitParse /\ [][NextParse]_vars

\* the positions of the closing marker in a file
EndifAt(lines) == {i \in DOMAIN lines : lines[i] = EndifMark("X.cc")}

\* the lines the parser reads: up to and including the first closing marker
ReadOf(lines) ==
    IF EndifAt(lines) = {} THEN lines
    ELSE SubSeq(lines, 1, CHOOSE i \in EndifAt(lines) : \A j \in EndifAt(lines) : i <= j)

\* the injected-lines adjustment after the lines read
RECURSIVE Adjustment(_)
Adjustment(lines) ==
    IF lines = <<>> THEN 0
    ELSE LET l == lines[Len(lines)]
         IN  CASE l.kind = "line" -> 0
               [] l.kind \in {"iface", "impl"} -> 5
               [] l.kind = "ext" -> 3
               [] OTHER -> Adjustment(SubSeq(lines, 1, Len(lines) - 1))

\* the parser ran to its end and produced a mapping
ParsedSome == parsed.done /\ ~parsed.panic /\ parsed.mappings /= <<>>

LastParsed == parsed.mappings[Len(parsed.mappings)]

\* C31: at the closing `#endif // <name>` the parser stops and closes the
\* last mapping at current_line - 1, whatever the adjustment counter is at
\* that point; at the end of a file without the marker it closes the last
\* mapping at final_line - adjustment.
C31_ClosedAtEnd ==
    ParsedSome =>
       IF EndifAt(parsed.lines) /= {}
       THEN LastParsed.src_end_line = (Len(ReadOf(parsed.lines)) - 1) - 1
       ELSE LastParsed.src_end_line =
               ((Len(parsed.lines) - 1) - Adjustment(parsed.lines)) % U32Modulus

\* what the code does: the adjustment is taken off at the marker as well
C31_ClosedLessAdjustment ==
    ParsedSome =>
       LET n == Len(ReadOf(parsed.lines)) - 1
           e == IF EndifAt(parsed.lines) /= {} THEN n - 1 ELSE n
       IN  LastParsed.src_end_line = (e - Adjustment(ReadOf(parsed.lines))) % U32Modulus

\* the parser stopped at a marker with the adjustment counter at 3
C31_AdjustedAtMarker ==
    /\ ParsedSome /\ EndifAt(parsed.lines) /= {}
    /\ Adjustment(ReadOf(parsed.lines)) = 3
    /\ LastParsed.src_end_line = 0

\* C32: for every sequence of lines, every mapping the parser produces has
\* src_start <= src_end_exclusive, and neither the end of a mapping nor the
\* length of its inverse underflows.
C32_NoUnderflow ==
    (parsed.done /\ (parsed.lines = <<>> \/ parsed.lines[1] /= EndifMark("X.cc"))) =>
       /\ ~parsed.panic
       /\ ~parsed.inverse_panic
       /\ \A i \in DOMAIN parsed.mappings :
             parsed.mappings[i].src_line <= parsed.mappings[i].src_end_line

-----------------------------------------------------------------------------
(* Claims about the range and point queries of the loaded mapping.         *)

\* the half-open interval of mapping m meets the lines start..end
MeetsHalfOpen(m, start, end) ==
    \E x \in start..end : m.src_line <= x /\ x < m.src_end_line

\* the files the claim describes for a range of `path`
FilesMeeting(lm, path, start, end) ==
    IF path \notin DOMAIN lm THEN {}
    ELSE {m.dst_file : m \in {x \in AllMappingsOf(lm[path]) : MeetsHalfOpen(x, start, end)}}

C33_FilesOfRangeInclusive ==
    RangeQueried =>
       range_query.files =
          IF range_query.path \notin DOMAIN source_mapping.to_preprocess THEN {}
          ELSE {m.dst_file :
                  m \in {x \in AllMappingsOf(source_mapping.to_preprocess[range_query.path]) :
                           \E l \in range_query.start..range_query.end :
                              x.src_line <= l /\ l <= x.src_end_line}}

\* a range that starts on the end line of the only mapping it touches
C33_EndTouched ==
    /\ RangeQueried
    /\ range_query.files /= {}
    /\ FilesMeeting(source_mapping.to_preprocess, range_query.path,
                    range_query.start, range_query.end) = {}

\* C34: a point query for an unknown path, or for a line no section's
\* mapping contains, returns the path and the line it was given; in every
\* case the character is returned as given.
C34_UnmappedUnchanged ==
    Queried =>
       /\ query.fwd.character = query.character
       /\ query.back.character = query.character
       /\ (query.path \notin DOMAIN source_mapping.to_preprocess
             \/ \A sec \in Sections :
                   Covering(source_mapping.to_preprocess, query.path, query.line, sec) = {})
          => (query.fwd.path = query.path /\ query.fwd.line = query.line)

\* a query for a line outside every mapping of a known file, with a column
C34_Witness ==
    /\ Queried
    /\ query.path \in DOMAIN source_mapping.to_preprocess
    /\ ~query.hit
    /\ query.character = 7
    /\ query.fwd = [path |-> query.path, line |-> query.line, character |-> 7]

\* a query that was translated, with its column
C34_WitnessMapped ==
    /\ Queried /\ query.hit /\ query.fwd.path \in PreFiles
    /\ query.character = 7 /\ query.fwd.character = 7

-----------------------------------------------------------------------------
(* Claims about the items kept of a shard's response.                      *)

\* C35: of a documentSymbol shard response an item is kept exactly when its
\* location or range maps FromPreprocess into the author file of the
\* original request: flat SymbolInformation items whose location maps into
\* that file are retained, items that map elsewhere are dropped.
C35_SymbolsKept == \A c \in DOMAIN fan : fan[c].due

\* nested DocumentSymbol items are kept exactly when they are due
C35_NestedSymbolsKept == \A c \in DOMAIN fan : fan[c].due \/ fan[c].flat

\* a shard answered with nested symbols was filtered
C35_NestedAnswered ==
    \E c \in DOMAIN fan :
       fan[c].answered >= 1 /\ ~fan[c].flat /\ fan[c].allok /\ fan[c].expected /= <<>>

-----------------------------------------------------------------------------
(* Claims about the fan-out of inlayHint requests.                         *)

\* the last message was an inlayHint request of the client on a known file
InlayRequested ==
    /\ last.kind = "request"
    /\ last.from = "client"
    /\ last.method = InlayHintMethod
    /\ ~last.malformed
    /\ last.path \in DOMAIN source_mapping.to_preprocess

\* the largest end line of the mappings recorded for a file
MaxEnd(flm) ==
    CHOOSE e \in {m.src_end_line : m \in AllMappingsOf(flm)} :
       \A m \in AllMappingsOf(flm) : m.src_end_line <= e

\* the requests that went out are one per file of `files`, each for the
\* whole of its file
InlaySplitInto(files) ==
    LET out == OfKind(sent, "request")
    IN  /\ Cardinality(out) = Cardinality(files)
        /\ \A f \in files : \E i \in out : sent[i].uri = FileUri(f)
        /\ \A i \in out :
              /\ sent[i].to = "server"
              /\ sent[i].uri.path \in DOMAIN source_mapping.from_preprocess
              /\ AllMappingsOf(source_mapping.from_preprocess[sent[i].uri.path]) /= {}
              /\ sent[i].range =
                    Rng(0, MaxEnd(source_mapping.from_preprocess[sent[i].uri.path]))

\* the files whose mappings' interval, its end line included, meets the range
FilesTouching(lm, path, start, end) ==
    {m.dst_file : m \in {x \in AllMappingsOf(lm[path]) :
                           \E l \in start..end : x.src_line <= l /\ l <= x.src_end_line}}

\* C36: an inlayHint request on a known author file whose range overlaps
\* at least one mapping is split into exactly one sub-request per
\* preprocessed file the range overlaps, each addressed to that file with
\* the range 0 .. length, the largest end line of the file's
\* from_preprocess mappings, which is defined for every such file.
C36_InlaySplit ==
    (InlayRequested
       /\ FilesMeeting(source_mapping.to_preprocess, last.path,
                       last.range.start, last.range.end) /= {})
    => InlaySplitInto(FilesMeeting(source_mapping.to_preprocess, last.path,
                                   last.range.start, last.range.end))

\* what the code does: one sub-request per file a mapping of which meets
\* the range with its end line included
C36_InlaySplitInclusive ==
    (InlayRequested
       /\ FilesTouching(source_mapping.to_preprocess, last.path,
                        last.range.start, last.range.end) /= {})
    => InlaySplitInto(FilesTouching(source_mapping.to_preprocess, last.path,
                                    last.range.start, last.range.end))

\* an inlayHint request was split into a sub-request for each of two files
C36_SplitInTwo ==
    /\ InlayRequested
    /\ Cardinality(OfKind(sent, "request")) = 2
    /\ Cardinality(FilesMeeting(source_mapping.to_preprocess, last.path,
                                last.range.start, last.range.end)) = 2
-----------------------------------------------------------------------------
(* Claims about scalar goto responses.                                     *)

\* the server answered a translated goto request with a single location
\* whose two ends lie in different author files
ScalarFailed ==
    /\ last.kind = "response"
    /\ last.method = GotoDefinitionMethod
    /\ relayed.code = "ok" /\ relayed.fmt = "Scalar"
    /\ last.path /= ""
    /\ AuthorFileOf(relayed.items[1].path, relayed.items[1].start, relayed.items[1].end) = ""

\* the answer went to the client as a result with one location
ScalarForwarded ==
    /\ Len(sent) = 1
    /\ sent[1].kind = "response" /\ sent[1].code = "ok" /\ sent[1].to = "client"
    /\ sent[1].id \in ClientIds
    /\ sent[1].fmt = "Scalar"
    /\ Len(sent[1].items) = 1

\* C38: a scalar goto response whose location fails translation (its range
\* endpoints map to different files) is still forwarded to the client, and
\* the location has been changed in place by the failed translation.
C38_ScalarMutated ==
    ScalarFailed => (ScalarForwarded /\ sent[1].items /= relayed.items)

\* a scalar goto response whose location fails translation is still
\* forwarded to the client, with the location as the server sent it
C38_ScalarUntouched ==
    ScalarFailed => (ScalarForwarded /\ sent[1].items = relayed.items)

\* a scalar location across two author files was answered
C38_Witness == ScalarFailed /\ Len(sent) = 1
-----------------------------------------------------------------------------
(* Code actions (handler/code_action.rs).  The items of a response are the *)
(* TextEdits of the WorkspaceEdit.changes of a CodeAction, in the order    *)
(* the HashMap yields them; `path` is the file URI an edit is listed       *)
(* under, `tag` its new_text.  The action carries no diagnostics.          *)

CodeActionMethod == "textDocument/codeAction"

TextEdit(tag, path, s, e) == [tag |-> tag, path |-> path, start |-> s, end |-> e]

\* handle_req_code_action: [params, value]
HandleReqCodeAction(sm, req) ==
    IF req.uri.scheme /= "file" THEN [params |-> req, value |-> NoValue]
    ELSE IF MapFiles(sm, "ToPreprocess", req.uri.path) = <<>>
         THEN [params |-> req, value |-> NoValue]
    ELSE LET Mapped(r) ==
                 IF ~r.ok THEN [params |-> req, value |-> NoValue]
                 ELSE [params |-> [req EXCEPT !.uri = FileUri(r.path),
                                              !.range = Rng(r.start, r.end)],
                       value  |-> LocValue(req.uri.path, r.path)]
         IN  Mapped(MapRange(sm, "ToPreprocess", req.uri.path, req.range.start, req.range.end))

\* RequestDispatcher::on with handle_req_code_action
RequestOnCodeAction(D, direction, sm, req) ==
    IF req.code /= "ok" THEN ReplyMalformed(D, direction, req)
    ELSE LET Prepared(h) ==
                 SendReq(AfterAlloc(D), direction,
                         [NewReqContext(req.method, req.id) EXCEPT !.value = h.value],
                         [h.params EXCEPT !.id = AllocReqId(D)])
         IN  Prepared(HandleReqCodeAction(sm, req))

\* mutant: a translated edit stays under the URI it came with
PlaceEditUnderOwnUri(result, e, r) ==
    IF r.ok THEN PushEntry(result, e.path, [e EXCEPT !.start = r.start, !.end = r.end])
    ELSE result

\* the body of the inner loop of handle_res_code_action: r is the result of
\* map_range_uri on the URI and the range of text edit e
PlaceEdit(result, e, r) ==
    IF r.ok THEN PushEntry(result, r.path, [e EXCEPT !.start = r.start, !.end = r.end])
    ELSE result

RECURSIVE MapChanges(_, _, _)
\* the loops of handle_res_code_action over `changes` and their text edits:
\* the HashMap mapped_changes
MapChanges(sm, edits, result) ==
    IF edits = <<>> THEN result
    ELSE MapChanges(sm, Tail(edits),
                    PlaceEdit(result, Head(edits),
                              MapRange(sm, "FromPreprocess", Head(edits).path,
                                       Head(edits).start, Head(edits).end)))

RECURSIVE Listed(_, _)
\* the edits of a HashMap of changes, each under the URI of its entry, the
\* entries iterated in `order`
Listed(changes, order) ==
    IF order = <<>> THEN <<>>
    ELSE [i \in 1..Len(changes[Head(order)]) |->
             [changes[Head(order)][i] EXCEPT !.path = Head(order)]]
           \o Listed(changes, Tail(order))

\* handle_res_code_action: the edits of the result
HandleResCodeAction(sm, ctx, res, order) ==
    IF ctx.value.kind /= "loc" THEN res.items
    ELSE Listed(MapChanges(sm, res.items, EmptyMap), order)

\* ResponseDispatcher::on with handle_res_code_action
ResponseOnCodeAction(D, direction, sm, ctx, res, order) ==
    IF res.code \in {"error", "InvalidParams"} THEN SendRes(D, direction, ctx, res)
    ELSE IF CastRes(res)
         THEN SendRes(D, direction, ctx,
                      BuildRes(res.id, res.fmt, HandleResCodeAction(sm, ctx, res, order)))
    ELSE D

\* GlobalState::handle_server_response for the response to a code action
\* request
HandleCodeActionResponse(D, sm, res, order) ==
    IF res.id \notin DOMAIN D.client_reqs THEN D
    ELSE ResponseOnCodeAction([D EXCEPT !.client_reqs = Unregister(@, res.id)],
                              "FromServer", sm, D.client_reqs[res.id], res, order)

-----------------------------------------------------------------------------
(* SpecAction: the client asks for code actions, the server answers.       *)

\* most text edits in the changes of a code action
MaxEdits == 2

CodeActionRequests ==
    {Request(id, CodeActionMethod, TRUE, u, r) :
        id \in ClientIds, u \in GotoUris, r \in ReqRanges}
      \cup {Request(id, CodeActionMethod, FALSE, NoUri, NoRange) : id \in ClientIds}

\* edits the server answers with: on lines of a.cpp and of b.cpp in X.cc,
\* across the two, outside every mapping, on lines of a.cpp in Y.cc, and in
\* a file that is not preprocessed
Edits ==
    { TextEdit("e1", "X.cc", 1, 2), TextEdit("e2", "X.cc", 4, 5),
      TextEdit("e3", "X.cc", 2, 4), TextEdit("e4", "X.cc", 9, 9),
      TextEdit("e5", "Y.cc", 7, 8), TextEdit("e6", UnknownFile, 0, 1) }

CodeActionResponses(id) ==
    {Response(id, code, "", <<>>) : code \in {"error", "null", "malformed"}}
      \cup {Response(id, "ok", "Changes", es) : es \in SeqsUpTo(Edits, MaxEdits)}

\* main_loop, Message::Request from the client: a code action request
CodeActionRequest ==
    /\ ~crashed /\ client_reqs = EmptyMap
    /\ \E req \in CodeActionRequests :
         \E D \in {RequestOnCodeAction(Dispatcher, "ToServer", source_mapping, req)} :
            /\ D.next_req_id <= MaxRequests
            /\ Commit(D)
            /\ last' = [kind |-> "request", from |-> "client", id |-> req.id,
                        method |-> req.method, path |-> req.uri.path,
                        registered |-> FALSE, before |-> 0,
                        malformed |-> req.code /= "ok"]
            /\ relayed' = NoRelayed
    /\ UNCHANGED <<mapvars, iovars, inflight, origin, fan, open_files, author_open, conforming,
                   server_open, track>>

\* main_loop, Message::Response from the server: the answer to a code
\* action request.  History: `relayed` is the response as it arrived.
CodeActionResponse ==
    /\ ~crashed
    /\ \E id \in DOMAIN client_reqs :
         \E res \in CodeActionResponses(id) :
            \E order \in Orderings(DOMAIN MapChanges(source_mapping, res.items, EmptyMap)) :
               /\ Commit(HandleCodeActionResponse(Dispatcher, source_mapping, res, order))
               /\ last' = [kind |-> "response", from |-> "server", id |-> res.id,
                           method |-> client_reqs[id].method,
                           path |-> client_reqs[id].value.source_path,
                           registered |-> TRUE, before |-> Cardinality(DOMAIN client_reqs),
                           malformed |-> FALSE]
               /\ relayed' = res
    /\ UNCHANGED <<mapvars, iovars, inflight, origin, fan, open_files, author_open, conforming,
                   server_open, track>>

NextAction == CodeActionRequest \/ CodeActionResponse

SpecAction == InitNotify /\ [][NextAction]_vars

-----------------------------------------------------------------------------
(* Claims about code action responses.                                     *)

\* the server answered a translated code action request with a result
ActionAnswered ==
    /\ last.kind = "response"
    /\ last.method = CodeActionMethod
    /\ relayed.code = "ok"
    /\ last.path /= ""

\* both ends of the range of edit e lie in one file
MapsToOneFile(e) == AuthorFileOf(e.path, e.start, e.end) /= ""

\* edit e under the URI of the file it maps to, with the translated range
Translated(e) ==
    [e EXCEPT !.path  = AuthorFileOf(e.path, e.start, e.end),
              !.start = PriorityImage(source_mapping.from_preprocess, e.path, e.start).line,
              !.end   = PriorityImage(source_mapping.from_preprocess, e.path, e.end).line]

\* how often v occurs in a sequence
Occurrences(s, v) == Cardinality({i \in 1..Len(s) : s[i] = v})

\* C37: in a code-action response to a translated request, every TextEdit
\* of every WorkspaceEdit.changes entry whose range maps FromPreprocess is
\* placed, with the translated range, under the URI of the file it maps to;
\* edits whose range endpoints map to different files are dropped; no edit
\* is duplicated or moved to a URI other than its mapped one.
C37_EditsRebucketed ==
    ActionAnswered =>
       /\ Len(sent) = 1
       /\ sent[1].kind = "response" /\ sent[1].code = "ok" /\ sent[1].to = "client"
       /\ \A v \in Elements(sent[1].items)
                     \cup {Translated(e) : e \in {x \in Edits : MapsToOneFile(x)}} :
             Occurrences(sent[1].items, v)
               = Cardinality({i \in 1..Len(relayed.items) :
                                 /\ MapsToOneFile(relayed.items[i])
                                 /\ Translated(relayed.items[i]) = v})

\* two edits listed under X.cc went out under a.cpp and b.cpp
C37_Witness ==
    /\ ActionAnswered
    /\ Len(relayed.items) = 2
    /\ relayed.items[1].path = relayed.items[2].path
    /\ Len(sent[1].items) = 2
    /\ {sent[1].items[i].path : i \in 1..2} = AuthorFiles

\* an edit across two author files was dropped and the other one kept
C37_WitnessDropped ==
    /\ ActionAnswered
    /\ Len(relayed.items) = 2
    /\ \E i \in 1..2 : ~MapsToOneFile(relayed.items[i])
    /\ Len(sent[1].items) = 1
-----------------------------------------------------------------------------
(* Claims about the notifications of documents the proxy cannot route.     *)

\* the last notification was a didOpen, didChange or didClose of a document
\* that is no file or that the mapping has no entry for
Unroutable ==
    /\ last.kind = "notification" /\ last.from = "client"
    /\ last.method \in {DidOpenMethod, DidChangeMethod, DidCloseMethod}
    /\ ~last.malformed
    /\ ~crashed
    /\ \/ last.given.uri.scheme /= "file"
       \/ last.given.uri.path \notin DOMAIN source_mapping.to_preprocess

\* C39: a didOpen, didChange or didClose whose URI is not a file URI, or
\* whose file has no entry in the to_preprocess mapping, is forwarded to the
\* server as exactly one notification with unchanged parameters, and leaves
\* the open-file refcount map unchanged.
C39_PassedThrough ==
    [][ Unroutable' =>
          /\ sent' = << [last'.given EXCEPT !.to = "server"] >>
          /\ open_files' = open_files
      ]_vars

\* a document that is no file, with the path of an open author file, was
\* closed
C39_Witness ==
    /\ Unroutable
    /\ last.method = DidCloseMethod
    /\ last.given.uri = Uri("untitled", "a.cpp")
    /\ "X.cc" \in DOMAIN open_files /\ "Y.cc" \in DOMAIN open_files
    /\ Len(sent) = 1

\* a file the mapping does not know was changed while documents are open
C39_WitnessChange ==
    /\ Unroutable
    /\ last.method = DidChangeMethod
    /\ last.given.uri = FileUri(UnknownFile)
    /\ last.given.items /= <<>>
    /\ open_files /= EmptyMap
    /\ Len(sent) = 1

\* the didClose of author file `path` finds none of its preprocessed files
\* in `of`
NoneOpen(of, path) ==
    \A i \in DOMAIN MapFiles(source_mapping, "ToPreprocess", path) :
       MapFiles(source_mapping, "ToPreprocess", path)[i] \notin DOMAIN of

\* C40: every entry of the open-file refcount map has a count of at least 1,
\* and a didClose for an author file whose destinations are not open
\* neither changes a count nor emits a didClose toward the server.
C40_RefcountsPositive ==
    [][ /\ \A p \in DOMAIN open_files' : open_files'[p] >= 1
        /\ (AuthorStep' /\ last'.method = DidCloseMethod /\ NoneOpen(open_files, last'.path))
             => (open_files' = open_files /\ sent' = <<>>)
      ]_vars

\* b.cpp was closed while X.cc, the file it is built into, is not open and
\* Y.cc is: nothing was sent
C40_Witness ==
    /\ AuthorStep /\ last.method = DidCloseMethod
    /\ last.path = "b.cpp"
    /\ DOMAIN open_files = {"Y.cc"}
    /\ sent = <<>>
=============================================================================
